---- MODULE Spec2Model ----
(***************************************************************************)
(* BulkFoodHub cart / checkout core.                                       *)
(*                                                                         *)
(* Cart Store: frontend/src/contexts/CartContext.tsx (cartReducer and the  *)
(* CartProvider methods built on it).  Specification Spec.                 *)
(*                                                                         *)
(* Checkout: frontend/src/pages/CheckoutPage.tsx, one mounted CheckoutPage *)
(* (a checkout session) with the cart drawer of its Header.                *)
(* Specification CheckoutSpec.                                             *)
(*                                                                         *)
(* Numbers.  A JavaScript number is an IEEE-754 binary floating-point      *)
(* value and +, - and * round their result to the nearest representable    *)
(* value, ties to even.  The model keeps that arithmetic (plus, minus,     *)
(* times below) with a significand of FloatBits bits instead of 53, so     *)
(* that all values fit the integers of the model checker.  A number is     *)
(* written as an integer count of the smallest unit in use; every integer  *)
(* below 2^FloatBits is exact.                                             *)
(***************************************************************************)
EXTENDS Integers, Sequences, FiniteSets, TLC

(***************************************************************************)
(* Bounds of the model.                                                    *)
(***************************************************************************)
\* product ids are 1..NumProducts
NumProducts == 2
\* quantities passed to addItem are 1..MaxQty, to updateQuantity -1..MaxQty
MaxQty == 2
\* the actions' guards keep a line item's quantity at or below MaxLineQty
MaxLineQty == 3
\* the actions' guards keep the cart's totalPrice within MaxDrift of the
\* sum of its line totals
MaxDrift == 2
\* Place Order issues a request only while fewer than MaxInFlight
\* createOrder requests are outstanding
MaxInFlight == 2

\* the CheckoutPage issues a calculateOrder request only while fewer than
\* MaxCalcInFlight of them are outstanding
MaxCalcInFlight == 2

\* calls of the api instance that are followed, 1..MaxRequests
MaxRequests == 2
\* a search is issued only while fewer than MaxFetchInFlight fetchProducts
\* calls are outstanding
MaxFetchInFlight == 2
\* the pages of a product list are 1..MaxPage
MaxPage == 2

\* bits of the significand of a number
FloatBits == 24

\* the unit amounts of money are counted in: a hundredth of a cent
UnitsPerDollar == 10000
\* one cent
Cent == UnitsPerDollar \div 100
\* const taxRate = 0.08, as the fraction 8 / 100
taxRate == <<8, 100>>
\* subtotal > 100 ? 0 : 15
FreeShippingThreshold == 100 * UnitsPerDollar
FlatShippingCost == 15 * UnitsPerDollar

ProductIds == 1..NumProducts
\* catalog prices (price_per_unit): a small one and the largest number
\* with an all-ones significand
Prices == {2, 2^FloatBits - 1}
\* catalog stock levels (available_quantity)
Stock == {2}
AddQuantities == 1..MaxQty
UpdateQuantities == (-1)..MaxQty

\* Product records as the Catalog Provider hands them to the cart
\* (types/index.ts Product, the fields the core reads).
Products ==
  [id : ProductIds, price_per_unit : Prices, available_quantity : Stock]

\* the address fields the checkout guards read (ShippingAddress also has
\* company, apartment, country and phone, which no guard reads)
RequiredFields ==
  {"first_name", "last_name", "street_address", "city", "state",
   "postal_code"}
\* what the user can leave in a text input: nothing, or some text
FieldValues == {"", "x"}

VARIABLES
  state,      \* CartProvider's reducer state: [items, totalItems, totalPrice]
  lastCall,   \* history: the CartContext method called last in Spec
  prevState,  \* history: the cart state that call was applied to
  page,       \* "catalog", "checkout" (CheckoutPage mounted),
              \* "redirected" (window.location.href = '/' was assigned, the
              \* document is still alive), "login" (the same with
              \* '/login') or "unloaded"
  currentStep,          \* CheckoutPage useState: 1 Shipping, 2 Payment,
                        \* 3 Review, 4 Confirmed
  shippingAddress,      \* CheckoutPage useState
  billingAddress,       \* CheckoutPage useState
  useSameAddress,       \* CheckoutPage useState
  isProcessing,         \* CheckoutPage useState
  createOrderRequests,  \* ordersApi.createOrder calls not yet settled
  alerted,              \* history: the last step called alert(...)
  calcRequests,         \* ordersApi.calculateOrder calls not yet settled,
                        \* oldest first, each with the totalPrice its
                        \* calculateTotals closure read
  orderCalculation,     \* CheckoutPage useState
  orderCalculationSource,  \* history: which request orderCalculation is of
  calculateOrderSent,   \* history: the checkoutData of the calculateOrder
                        \* call made last, in a sequence that is empty
                        \* before the first call
  paymentMethod,        \* CheckoutPage useState
  orderNotes,           \* CheckoutPage useState
  lastSetter,           \* history: the field setter the last step called,
                        \* "none" when it called none
  selectedQuantity,     \* useState quantity of the ProductCard and of the
                        \* ProductDetail of each product
  storage,              \* localStorage: access_token and refresh_token
  requests,             \* the calls of the axios instance `api`, each with
                        \* its config (_retry, Authorization) and where it
                        \* is between its call and its settlement
  searchParams,         \* ProductCatalog useState
  products,             \* ProductCatalog useState
  pagination,           \* ProductCatalog useState
  loading,              \* ProductCatalog useState
  productFetches,       \* fetchProducts calls not yet settled, oldest
                        \* first, each with its params
  newestFetch           \* history: how the fetchProducts call made last
                        \* has ended, "pending" while it has not

cartVars == <<state, lastCall, prevState>>
calcVars == <<calcRequests, orderCalculation, orderCalculationSource,
              calculateOrderSent>>
paymentVars == <<paymentMethod, orderNotes, lastSetter>>
\* the state of the CheckoutPage and of its requests
pageVars == <<currentStep, shippingAddress, billingAddress,
              useSameAddress, isProcessing, createOrderRequests,
              alerted, calcRequests, orderCalculation,
              orderCalculationSource, calculateOrderSent, paymentMethod,
              orderNotes, lastSetter>>
\* the api instance and the product list of the ProductCatalog
apiVars == <<storage, requests>>
fetchVars == <<searchParams, products, pagination, loading, productFetches,
               newestFetch>>
serviceVars == <<apiVars, fetchVars>>
checkoutVars == <<page, pageVars, selectedQuantity, serviceVars>>
vars == <<state, lastCall, prevState, page, currentStep, shippingAddress,
          billingAddress, useSameAddress, isProcessing, createOrderRequests,
          alerted, calcRequests, orderCalculation, orderCalculationSource,
          calculateOrderSent, paymentMethod, orderNotes, lastSetter,
          selectedQuantity, storage, requests, searchParams, products,
          pagination, loading, productFetches, newestFetch>>

(***************************************************************************)
(* Number arithmetic.                                                      *)
(***************************************************************************)
\* the least number that needs more than FloatBits bits
TwoToFloatBits == 2^FloatBits

\* the unit in the last place of x >= 0: the least power of two u with
\* x < u * 2^FloatBits
RECURSIVE ulp(_, _)
ulp(x, u) == IF x < u * TwoToFloatBits THEN u ELSE ulp(x, 2 * u)

\* x >= 0 rounded to FloatBits significant bits, to nearest, ties to even
roundNearestEven(x) ==
  LET u == ulp(x, 1)
      q == x \div u
      r == x % u
  IN IF 2 * r < u THEN q * u
     ELSE IF 2 * r > u THEN (q + 1) * u
     ELSE IF q % 2 = 0 THEN q * u ELSE (q + 1) * u

\* the number nearest to the integer x
fl(x) == IF x < 0 THEN 0 - roundNearestEven(0 - x) ELSE roundNearestEven(x)

\* a + b, a - b and a * b on numbers
plus(a, b) == fl(a + b)
minus(a, b) == fl(a - b)
times(a, b) == fl(a * b)

\* a * rate for a >= 0 and a rate <<n, d>> standing for the fraction n / d:
\* the number nearest to a * n / d, ties to even
timesRate(a, rate) ==
  LET n == a * rate[1]
      d == rate[2]
      q == n \div d
      r == n % d
  IN fl(IF 2 * r < d THEN q
        ELSE IF 2 * r > d THEN q + 1
        ELSE IF q % 2 = 0 THEN q ELSE q + 1)

(***************************************************************************)
(* Helpers standing for the array methods the reducer uses.                *)
(***************************************************************************)
\* items.find(item => item.product.id === productId): the index of the
\* first match, 0 for undefined.
findIndex(items, productId) ==
  IF \E i \in 1..Len(items) : items[i].product.id = productId
    THEN CHOOSE i \in 1..Len(items) :
           /\ items[i].product.id = productId
           /\ \A j \in 1..(i - 1) : items[j].product.id # productId
    ELSE 0

\* items.filter(item => item.product.id !== productId)
RECURSIVE filterOut(_, _)
filterOut(items, productId) ==
  IF items = << >> THEN << >>
  ELSE IF Head(items).product.id # productId
    THEN <<Head(items)>> \o filterOut(Tail(items), productId)
    ELSE filterOut(Tail(items), productId)

\* items.reduce((sum, item) => sum + item.total_price, 0)
RECURSIVE reduceTotalPrice(_)
reduceTotalPrice(items) ==
  IF items = << >> THEN 0
  ELSE plus(reduceTotalPrice(SubSeq(items, 1, Len(items) - 1)),
            items[Len(items)].total_price)

\* items.reduce((sum, item) => sum + item.quantity, 0)
RECURSIVE reduceQuantity(_)
reduceQuantity(items) ==
  IF items = << >> THEN 0
  ELSE plus(reduceQuantity(SubSeq(items, 1, Len(items) - 1)),
            items[Len(items)].quantity)

(***************************************************************************)
(* cartReducer, one operator per case of the switch.                       *)
(***************************************************************************)
RECURSIVE cartReducer(_, _)

initialState == [items |-> << >>, totalItems |-> 0, totalPrice |-> 0]

\* ADD_ITEM without the lookup of an existing line item
ADD_ITEM_alwaysAppends(s, payload) ==
  LET product  == payload.product
      quantity == payload.quantity
      newItem  == [product     |-> product,
                   quantity    |-> quantity,
                   unit_price  |-> product.price_per_unit,
                   total_price |-> times(product.price_per_unit, quantity)]
  IN [s EXCEPT !.items = Append(s.items, newItem),
               !.totalItems = plus(s.totalItems, quantity),
               !.totalPrice = plus(s.totalPrice, newItem.total_price)]

\* ADD_ITEM whose merge overwrites the quantity instead of adding to it
ADD_ITEM_overwritesQuantity(s, payload) ==
  LET product  == payload.product
      quantity == payload.quantity
      existing == findIndex(s.items, product.id)
  IN IF existing # 0
       THEN LET updatedItems ==
                  [i \in 1..Len(s.items) |->
                     IF s.items[i].product.id = product.id
                       THEN [s.items[i] EXCEPT
                               !.quantity = quantity,
                               !.total_price =
                                 times(quantity, s.items[i].unit_price)]
                       ELSE s.items[i]]
            IN [s EXCEPT !.items = updatedItems,
                         !.totalItems = reduceQuantity(updatedItems),
                         !.totalPrice = reduceTotalPrice(updatedItems)]
       ELSE LET newItem == [product     |-> product,
                            quantity    |-> quantity,
                            unit_price  |-> product.price_per_unit,
                            total_price |-> times(product.price_per_unit, quantity)]
            IN [s EXCEPT !.items = Append(s.items, newItem),
                         !.totalItems = plus(s.totalItems, quantity),
                         !.totalPrice = plus(s.totalPrice, newItem.total_price)]

\* ADD_ITEM whose merge takes the unit price of the product passed in
ADD_ITEM_reprices(s, payload) ==
  LET product  == payload.product
      quantity == payload.quantity
      existing == findIndex(s.items, product.id)
  IN IF existing # 0
       THEN LET updatedItems ==
                  [i \in 1..Len(s.items) |->
                     IF s.items[i].product.id = product.id
                       THEN [s.items[i] EXCEPT
                               !.quantity = plus(s.items[i].quantity, quantity),
                               !.unit_price = product.price_per_unit,
                               !.total_price =
                                 times(plus(s.items[i].quantity, quantity),
                                       product.price_per_unit)]
                       ELSE s.items[i]]
            IN [s EXCEPT !.items = updatedItems,
                         !.totalItems = plus(s.totalItems, quantity),
                         !.totalPrice = reduceTotalPrice(updatedItems)]
       ELSE LET newItem == [product     |-> product,
                            quantity    |-> quantity,
                            unit_price  |-> product.price_per_unit,
                            total_price |-> times(product.price_per_unit, quantity)]
            IN [s EXCEPT !.items = Append(s.items, newItem),
                         !.totalItems = plus(s.totalItems, quantity),
                         !.totalPrice = plus(s.totalPrice, newItem.total_price)]

\* case 'ADD_ITEM'
ADD_ITEM(s, payload) ==
  LET product  == payload.product
      quantity == payload.quantity
      existing == findIndex(s.items, product.id)
  IN IF existing # 0
       THEN LET updatedItems ==
                  [i \in 1..Len(s.items) |->
                     IF s.items[i].product.id = product.id
                       THEN [s.items[i] EXCEPT
                               !.quantity = plus(s.items[i].quantity, quantity),
                               !.total_price =
                                 times(plus(s.items[i].quantity, quantity),
                                       s.items[i].unit_price)]
                       ELSE s.items[i]]
            IN [s EXCEPT !.items = updatedItems,
                         !.totalItems = plus(s.totalItems, quantity),
                         !.totalPrice = reduceTotalPrice(updatedItems)]
       ELSE LET newItem == [product     |-> product,
                            quantity    |-> quantity,
                            unit_price  |-> product.price_per_unit,
                            total_price |-> times(product.price_per_unit, quantity)]
            IN [s EXCEPT !.items = Append(s.items, newItem),
                         !.totalItems = plus(s.totalItems, quantity),
                         !.totalPrice = plus(s.totalPrice, newItem.total_price)]

\* REMOVE_ITEM that removes by position and, finding no line item, drops
\* the last one (splice at index -1)
REMOVE_ITEM_spliceLast(s, payload) ==
  LET found        == findIndex(s.items, payload.productId)
      itemToRemove == IF found = 0 THEN Len(s.items) ELSE found
  IN IF itemToRemove = 0 THEN s
     ELSE [s EXCEPT
             !.items = SubSeq(s.items, 1, itemToRemove - 1)
                         \o SubSeq(s.items, itemToRemove + 1, Len(s.items)),
             !.totalItems = minus(s.totalItems, s.items[itemToRemove].quantity),
             !.totalPrice = minus(s.totalPrice,
                                  s.items[itemToRemove].total_price)]

\* REMOVE_ITEM that fills the place of the removed line item with the last
\* line item (a swap-remove)
REMOVE_ITEM_swapRemove(s, payload) ==
  LET itemToRemove == findIndex(s.items, payload.productId)
      last         == Len(s.items)
  IN IF itemToRemove = 0 THEN s
     ELSE [s EXCEPT
             !.items = [i \in 1..(last - 1) |->
                          IF i = itemToRemove THEN s.items[last]
                          ELSE s.items[i]],
             !.totalItems = minus(s.totalItems, s.items[itemToRemove].quantity),
             !.totalPrice = minus(s.totalPrice,
                                  s.items[itemToRemove].total_price)]

\* case 'REMOVE_ITEM'
REMOVE_ITEM(s, payload) ==
  LET itemToRemove == findIndex(s.items, payload.productId)
  IN IF itemToRemove = 0 THEN s
     ELSE [s EXCEPT
             !.items = filterOut(s.items, payload.productId),
             !.totalItems = minus(s.totalItems, s.items[itemToRemove].quantity),
             !.totalPrice = minus(s.totalPrice,
                                  s.items[itemToRemove].total_price)]

\* UPDATE_QUANTITY without the branch for quantity <= 0
UPDATE_QUANTITY_storesAny(s, payload) ==
  LET productId == payload.productId
      quantity  == payload.quantity
      existing  == findIndex(s.items, productId)
  IN IF existing = 0 THEN s
     ELSE LET updatedItems ==
                [i \in 1..Len(s.items) |->
                   IF s.items[i].product.id = productId
                     THEN [s.items[i] EXCEPT
                             !.quantity = quantity,
                             !.total_price =
                               times(quantity, s.items[i].unit_price)]
                     ELSE s.items[i]]
          IN [s EXCEPT !.items = updatedItems,
                       !.totalItems = reduceQuantity(updatedItems),
                       !.totalPrice = reduceTotalPrice(updatedItems)]

\* UPDATE_QUANTITY that removes only for quantity < 0
UPDATE_QUANTITY_strictlyNegative(s, payload) ==
  LET productId == payload.productId
      quantity  == payload.quantity
      existing  == findIndex(s.items, productId)
  IN IF existing = 0 THEN s
     ELSE IF quantity < 0
       THEN cartReducer(s, [type |-> "REMOVE_ITEM",
                            payload |-> [productId |-> productId]])
       ELSE LET updatedItems ==
                  [i \in 1..Len(s.items) |->
                     IF s.items[i].product.id = productId
                       THEN [s.items[i] EXCEPT
                               !.quantity = quantity,
                               !.total_price =
                                 times(quantity, s.items[i].unit_price)]
                       ELSE s.items[i]]
            IN [s EXCEPT !.items = updatedItems,
                         !.totalItems = reduceQuantity(updatedItems),
                         !.totalPrice = reduceTotalPrice(updatedItems)]

\* case 'UPDATE_QUANTITY'
UPDATE_QUANTITY(s, payload) ==
  LET productId == payload.productId
      quantity  == payload.quantity
      existing  == findIndex(s.items, productId)
  IN IF existing = 0 THEN s
     ELSE IF quantity <= 0
       THEN cartReducer(s, [type |-> "REMOVE_ITEM",
                            payload |-> [productId |-> productId]])
       ELSE LET updatedItems ==
                  [i \in 1..Len(s.items) |->
                     IF s.items[i].product.id = productId
                       THEN [s.items[i] EXCEPT
                               !.quantity = quantity,
                               !.total_price =
                                 times(quantity, s.items[i].unit_price)]
                       ELSE s.items[i]]
            IN [s EXCEPT !.items = updatedItems,
                         !.totalItems = reduceQuantity(updatedItems),
                         !.totalPrice = reduceTotalPrice(updatedItems)]

\* CLEAR_CART that empties the items and keeps the cached totals
CLEAR_CART_keepsTotals(s) == [s EXCEPT !.items = << >>]

\* case 'CLEAR_CART'
CLEAR_CART(s) == [items |-> << >>, totalItems |-> 0, totalPrice |-> 0]

cartReducer(s, action) ==
  CASE action.type = "ADD_ITEM"        -> ADD_ITEM(s, action.payload)
    [] action.type = "REMOVE_ITEM"     -> REMOVE_ITEM(s, action.payload)
    [] action.type = "UPDATE_QUANTITY" -> UPDATE_QUANTITY(s, action.payload)
    [] action.type = "CLEAR_CART"      -> CLEAR_CART(s)
    [] OTHER                           -> s

\* getItemQuantity that reads the line total instead of the quantity
getItemQuantity_readsTotal(s, productId) ==
  LET item == findIndex(s.items, productId)
  IN IF item # 0 THEN s.items[item].total_price ELSE 0

\* CartProvider.getItemQuantity
getItemQuantity(s, productId) ==
  LET item == findIndex(s.items, productId)
  IN IF item # 0 THEN s.items[item].quantity ELSE 0

(***************************************************************************)
(* The CartContext methods as actions: each dispatches one reducer action. *)
(***************************************************************************)
\* the quantity the line item of productId has in s, 0 when there is none
\* (used only to keep the model finite)
LineQty(s, productId) ==
  LET i == findIndex(s.items, productId)
  IN IF i # 0 THEN s.items[i].quantity ELSE 0

\* the rounding of + and - lets totalPrice walk away from the sum of the
\* line totals without limit; a call is explored only while the distance
\* stays within MaxDrift (used only to keep the model finite)
withinDrift(s) ==
  LET d == s.totalPrice - reduceTotalPrice(s.items)
  IN (0 - MaxDrift) <= d /\ d <= MaxDrift

\* localStorage with no token in it
emptyStorage == [access_token |-> "none", refresh_token |-> "none"]

\* a call of `api` that was not made yet
idleRequest ==
  [phase |-> "idle", _retry |-> FALSE, Authorization |-> "none",
   sends |-> 0, refreshes |-> 0, failure |-> "none", error |-> "none"]

\* the useState initial values of ProductCatalog: page 1 of the search
\* with no query.  Of ProductSearchParams the model keeps query and page;
\* size stays 20, offset follows from page, and the sort fields are never
\* changed by ProductCatalog.
initialSearchParams == [query |-> "", page |-> 1]

initialPagination == [page |-> 1, size |-> 20, total |-> 0]

\* the ProductCatalog before its first fetch
FetchInitial ==
  /\ searchParams = initialSearchParams
  /\ products = << >>
  /\ pagination = initialPagination
  /\ loading = TRUE
  /\ productFetches = << >>
  /\ newestFetch = "pending"

\* the api instance with no call made and the ProductCatalog before its
\* first fetch, where the sessions of the cart and of the checkout leave them
ServicesInitial ==
  /\ storage = emptyStorage
  /\ requests = [r \in 1..MaxRequests |-> idleRequest]
  /\ FetchInitial

\* the useState initial values of CheckoutPage
emptyAddress == [f \in RequiredFields |-> ""]

\* useState<OrderCalculation> initial value (currency is always 'USD')
initialCalculation ==
  [subtotal |-> 0, tax_amount |-> 0, shipping_cost |-> 0, total_amount |-> 0]

\* orderCalculation is not the result of any request
initialSource == [from |-> "initial", newest |-> FALSE]

\* the components with a quantity selector and an Add to Cart button
Selectors == {"ProductCard", "ProductDetail"}

\* useState(1) of every selector
initialQuantity == [c \in Selectors, p \in ProductIds |-> 1]

CheckoutPageInitial ==
  /\ currentStep = 1
  /\ shippingAddress = emptyAddress
  /\ billingAddress = emptyAddress
  /\ useSameAddress = TRUE
  /\ isProcessing = FALSE
  /\ orderCalculation = initialCalculation
  /\ orderCalculationSource = initialSource
  /\ alerted = FALSE
  /\ createOrderRequests = << >>
  /\ paymentMethod = "credit_card"
  /\ orderNotes = ""
  /\ lastSetter = "none"

Init ==
  /\ state = initialState
  /\ lastCall = [op |-> "none"]
  /\ prevState = initialState
  /\ page = "catalog"
  /\ CheckoutPageInitial
  /\ calcRequests = << >>
  /\ calculateOrderSent = << >>
  /\ selectedQuantity = initialQuantity
  /\ ServicesInitial

addItem(product, quantity) ==
  /\ LineQty(state, product.id) + quantity <= MaxLineQty
  /\ state' = cartReducer(state, [type |-> "ADD_ITEM",
                 payload |-> [product |-> product, quantity |-> quantity]])
  /\ withinDrift(state')
  /\ lastCall' = [op |-> "addItem", product |-> product,
                  quantity |-> quantity]
  /\ prevState' = state
  /\ UNCHANGED checkoutVars

removeItem(productId) ==
  /\ state' = cartReducer(state, [type |-> "REMOVE_ITEM",
                 payload |-> [productId |-> productId]])
  /\ withinDrift(state')
  /\ lastCall' = [op |-> "removeItem", productId |-> productId]
  /\ prevState' = state
  /\ UNCHANGED checkoutVars

updateQuantity(productId, quantity) ==
  /\ state' = cartReducer(state, [type |-> "UPDATE_QUANTITY",
                 payload |-> [productId |-> productId,
                              quantity |-> quantity]])
  /\ withinDrift(state')
  /\ lastCall' = [op |-> "updateQuantity", productId |-> productId,
                  quantity |-> quantity]
  /\ prevState' = state
  /\ UNCHANGED checkoutVars

clearCart ==
  /\ state' = cartReducer(state, [type |-> "CLEAR_CART"])
  /\ lastCall' = [op |-> "clearCart"]
  /\ prevState' = state
  /\ UNCHANGED checkoutVars

\* a reload of the page: the new document mounts a new CartProvider, whose
\* useReducer(cartReducer, initialState) starts from initialState (the
\* provider reads nothing from storage and writes nothing to it)
reloadPage ==
  /\ state' = initialState
  /\ lastCall' = [op |-> "reload"]
  /\ prevState' = state
  /\ UNCHANGED checkoutVars

queryItemQuantity(productId) ==
  /\ lastCall' = [op |-> "getItemQuantity", productId |-> productId,
                  result |-> getItemQuantity(state, productId)]
  /\ prevState' = state
  /\ UNCHANGED state
  /\ UNCHANGED checkoutVars

Next ==
  \/ \E product \in Products, quantity \in AddQuantities :
       addItem(product, quantity)
  \/ \E productId \in ProductIds : removeItem(productId)
  \/ \E productId \in ProductIds, quantity \in UpdateQuantities :
       updateQuantity(productId, quantity)
  \/ clearCart
  \/ \E productId \in ProductIds : queryItemQuantity(productId)
  \/ reloadPage

Spec == Init /\ [][Next]_vars

(***************************************************************************)
(* CheckoutPage.  A step of the model is one browser event together with   *)
(* the render and the effects that follow it: React flushes the state      *)
(* updates of a discrete event before the next event is handled.           *)
(***************************************************************************)
\* the carts a checkout session can be entered with: the first k catalog
\* products, one unit of each, all at price p and stock level a
RECURSIVE cartOfFirst(_, _, _)
cartOfFirst(k, p, a) ==
  IF k = 0 THEN initialState
  ELSE cartReducer(cartOfFirst(k - 1, p, a),
         [type |-> "ADD_ITEM",
          payload |-> [product |-> [id |-> k, price_per_unit |-> p,
                                    available_quantity |-> a],
                       quantity |-> 1]])

CheckoutCarts ==
  {cartOfFirst(k, p, a) : k \in 0..NumProducts, p \in Prices, a \in Stock}

\* a CheckoutPage without the redirect effect
pageAfterRender_noRedirect(cart) == "checkout"

\* useEffect "Redirect if cart is empty": the page after a render of the
\* mounted CheckoutPage with cart `cart`.  Assigning window.location.href
\* starts the navigation; the document, and the CheckoutPage mounted in it,
\* live on until the browser unloads them (pageUnload).
pageAfterRender(cart) ==
  IF Len(cart.items) = 0 THEN "redirected" ELSE "checkout"

\* the CheckoutPage is mounted: its setState calls take effect
Mounted == page \in {"checkout", "redirected"}

\* the document is alive: promise callbacks still run
Alive == page \in {"checkout", "redirected", "catalog"}

\* isShippingValid without the city
isShippingValid_skipsCity ==
  /\ shippingAddress["first_name"] # ""
  /\ shippingAddress["last_name"] # ""
  /\ shippingAddress["street_address"] # ""
  /\ shippingAddress["state"] # ""
  /\ shippingAddress["postal_code"] # ""

isShippingValid ==
  /\ shippingAddress["first_name"] # ""
  /\ shippingAddress["last_name"] # ""
  /\ shippingAddress["street_address"] # ""
  /\ shippingAddress["city"] # ""
  /\ shippingAddress["state"] # ""
  /\ shippingAddress["postal_code"] # ""

\* isBillingValid that returns true in both branches
isBillingValid_always == TRUE

isBillingValid ==
  IF useSameAddress THEN TRUE
  ELSE /\ billingAddress["first_name"] # ""
       /\ billingAddress["last_name"] # ""
       /\ billingAddress["street_address"] # ""
       /\ billingAddress["city"] # ""
       /\ billingAddress["state"] # ""
       /\ billingAddress["postal_code"] # ""

\* ui/Button: a Button whose disabled prop is true fires no onClick
ButtonFires(disabled) == ~disabled

\* disabled prop of the Previous button
PreviousDisabled == currentStep = 1

\* disabled prop of the Next button
NextDisabled ==
  \/ (currentStep = 1 /\ ~isShippingValid)
  \/ (currentStep = 2 /\ ~isBillingValid)

\* Place Order button with no disabled prop
PlaceOrderDisabled_never == FALSE

\* disabled prop of the Place Order button
PlaceOrderDisabled == isProcessing

\* a checkoutData that always carries the stored billing address
checkoutData_storedBilling ==
  [shipping_address |-> shippingAddress,
   billing_address  |-> billingAddress,
   payment_method   |-> paymentMethod,
   notes            |-> orderNotes]

\* checkoutData built by handlePlaceOrder and, with the same expression, by
\* calculateTotals
checkoutData ==
  [shipping_address |-> shippingAddress,
   billing_address  |-> IF useSameAddress THEN shippingAddress
                        ELSE billingAddress,
   payment_method   |-> paymentMethod,
   notes            |-> orderNotes]

\* the CheckoutPage is mounted and renders its steps (it returns null when
\* the cart is empty)
Rendered == page = "checkout" /\ Len(state.items) > 0

CheckoutInit ==
  /\ state \in CheckoutCarts
  /\ lastCall = [op |-> "none"]
  /\ prevState = initialState
  /\ page = pageAfterRender(state)
  /\ CheckoutPageInitial
  /\ calcRequests = << >>
  /\ calculateOrderSent = << >>
  /\ selectedQuantity = initialQuantity
  /\ ServicesInitial

\* a shipping form that is rendered at the Payment step as well
handleShippingChange_atPayment(field, value) ==
  /\ Rendered
  /\ currentStep \in {1, 2}
  /\ shippingAddress' = [shippingAddress EXCEPT ![field] = value]
  /\ alerted' = FALSE
  /\ UNCHANGED <<cartVars, page, currentStep, billingAddress,
                 useSameAddress, isProcessing, createOrderRequests>>

handleShippingChange(field, value) ==
  /\ Rendered
  /\ currentStep = 1
  /\ shippingAddress' = [shippingAddress EXCEPT ![field] = value]
  /\ alerted' = FALSE
  /\ UNCHANGED <<cartVars, page, currentStep, billingAddress,
                 useSameAddress, isProcessing, createOrderRequests>>

handleBillingChange(field, value) ==
  /\ Rendered
  /\ currentStep = 2
  /\ ~useSameAddress
  /\ billingAddress' = [billingAddress EXCEPT ![field] = value]
  /\ alerted' = FALSE
  /\ UNCHANGED <<cartVars, page, currentStep, shippingAddress,
                 useSameAddress, isProcessing, createOrderRequests>>

\* a toggle that does not copy the shipping address
handleUseSameAddressChange_noCopy(checked) ==
  /\ Rendered
  /\ currentStep = 2
  /\ checked = ~useSameAddress
  /\ useSameAddress' = checked
  /\ alerted' = FALSE
  /\ UNCHANGED <<cartVars, page, currentStep, shippingAddress,
                 billingAddress, isProcessing, createOrderRequests>>

handleUseSameAddressChange(checked) ==
  /\ Rendered
  /\ currentStep = 2
  /\ checked = ~useSameAddress
  /\ useSameAddress' = checked
  /\ billingAddress' = IF checked THEN shippingAddress ELSE billingAddress
  /\ alerted' = FALSE
  /\ UNCHANGED <<cartVars, page, currentStep, shippingAddress,
                 isProcessing, createOrderRequests>>

\* the payment radio buttons: onChange={(e) => setPaymentMethod(...)}, called
\* when the other radio button is chosen
setPaymentMethod(value) ==
  /\ Rendered
  /\ currentStep = 2
  /\ value # paymentMethod
  /\ paymentMethod' = value
  /\ alerted' = FALSE
  /\ UNCHANGED <<cartVars, page, currentStep, shippingAddress,
                 billingAddress, useSameAddress, isProcessing,
                 createOrderRequests, orderNotes>>

\* onChange of the textarea: React calls it when the text changed.  "x"
\* stands for any text that is not empty, so "x" after "x" is a change and
\* "" after "" is none.
InputChanges(old, new) == old # "" \/ new # ""

\* the notes textarea: onChange={(e) => setOrderNotes(e.target.value)}
setOrderNotes(value) ==
  /\ Rendered
  /\ currentStep = 2
  /\ InputChanges(orderNotes, value)
  /\ orderNotes' = value
  /\ alerted' = FALSE
  /\ UNCHANGED <<cartVars, page, currentStep, shippingAddress,
                 billingAddress, useSameAddress, isProcessing,
                 createOrderRequests, paymentMethod>>

\* a Next button that is also there at Review, with a handler off by one
handleNextStep_pastReview ==
  /\ Rendered
  /\ currentStep < 4
  /\ ButtonFires(NextDisabled)
  /\ currentStep' = IF currentStep < 4 THEN plus(currentStep, 1)
                     ELSE currentStep
  /\ alerted' = FALSE
  /\ UNCHANGED <<cartVars, page, shippingAddress, billingAddress,
                 useSameAddress, isProcessing, createOrderRequests>>

handleNextStep ==
  /\ Rendered
  /\ currentStep < 3
  /\ ButtonFires(NextDisabled)
  /\ currentStep' = IF currentStep < 3 THEN plus(currentStep, 1)
                     ELSE currentStep
  /\ alerted' = FALSE
  /\ UNCHANGED <<cartVars, page, shippingAddress, billingAddress,
                 useSameAddress, isProcessing, createOrderRequests>>

handlePreviousStep ==
  /\ Rendered
  /\ currentStep < 4
  /\ ButtonFires(PreviousDisabled)
  /\ currentStep' = IF currentStep > 1 THEN minus(currentStep, 1)
                     ELSE currentStep
  /\ alerted' = FALSE
  /\ UNCHANGED <<cartVars, page, shippingAddress, billingAddress,
                 useSameAddress, isProcessing, createOrderRequests>>

\* handlePlaceOrder up to its await: the click on Place Order
handlePlaceOrder ==
  /\ Rendered
  /\ currentStep = 3
  /\ ButtonFires(PlaceOrderDisabled)
  /\ Len(createOrderRequests) < MaxInFlight
  /\ isProcessing' = TRUE
  /\ createOrderRequests' = Append(createOrderRequests, checkoutData)
  /\ alerted' = FALSE
  /\ UNCHANGED <<cartVars, page, currentStep, shippingAddress,
                 billingAddress, useSameAddress>>

\* createOrderRequests without its i-th element
settle(i) ==
  SubSeq(createOrderRequests, 1, i - 1)
    \o SubSeq(createOrderRequests, i + 1, Len(createOrderRequests))

\* the resolved branch without its clearCart() call
createOrderResolved_keepsCart(i) ==
  /\ Alive
  /\ createOrderRequests' = settle(i)
  /\ state' = state
  /\ IF Mounted
       THEN /\ currentStep' = 4
            /\ isProcessing' = FALSE
            /\ page' = IF page = "checkout" THEN pageAfterRender(state')
                       ELSE page
       ELSE UNCHANGED <<currentStep, isProcessing, page>>
  /\ alerted' = FALSE
  /\ UNCHANGED <<lastCall, prevState, shippingAddress, billingAddress,
                 useSameAddress>>

\* handlePlaceOrder after its await, createOrder resolved: clearCart(),
\* setCurrentStep(4), finally setIsProcessing(false).  On an unmounted
\* CheckoutPage the two setState calls do nothing.
createOrderResolved(i) ==
  /\ Alive
  /\ createOrderRequests' = settle(i)
  /\ state' = cartReducer(state, [type |-> "CLEAR_CART"])
  /\ IF Mounted
       THEN /\ currentStep' = 4
            /\ isProcessing' = FALSE
            /\ page' = IF page = "checkout" THEN pageAfterRender(state')
                       ELSE page
       ELSE UNCHANGED <<currentStep, isProcessing, page>>
  /\ alerted' = FALSE
  /\ UNCHANGED <<lastCall, prevState, shippingAddress, billingAddress,
                 useSameAddress>>

\* a catch branch that also calls clearCart()
createOrderRejected_clearsCart(i) ==
  /\ Alive
  /\ createOrderRequests' = settle(i)
  /\ alerted' = TRUE
  /\ isProcessing' = IF Mounted THEN FALSE ELSE isProcessing
  /\ state' = cartReducer(state, [type |-> "CLEAR_CART"])
  /\ page' = IF page = "checkout" THEN pageAfterRender(state') ELSE page
  /\ UNCHANGED <<lastCall, prevState, currentStep, shippingAddress,
                 billingAddress, useSameAddress>>

\* a catch branch with no finally after it
createOrderRejected_noFinally(i) ==
  /\ Alive
  /\ createOrderRequests' = settle(i)
  /\ alerted' = TRUE
  /\ UNCHANGED <<cartVars, page, currentStep, shippingAddress,
                 billingAddress, useSameAddress, isProcessing>>

\* handlePlaceOrder after its await, createOrder rejected: alert(...),
\* finally setIsProcessing(false)
createOrderRejected(i) ==
  /\ Alive
  /\ createOrderRequests' = settle(i)
  /\ alerted' = TRUE
  /\ isProcessing' = IF Mounted THEN FALSE ELSE isProcessing
  /\ UNCHANGED <<cartVars, page, currentStep, shippingAddress,
                 billingAddress, useSameAddress>>

\* CartDrawer (rendered by the Header of the CheckoutPage): the minus
\* button of a line item, disabled at quantity <= 1
drawerMinus(i) ==
  /\ Rendered
  /\ ButtonFires(state.items[i].quantity <= 1)
  /\ state' = cartReducer(state, [type |-> "UPDATE_QUANTITY",
                 payload |-> [productId |-> state.items[i].product.id,
                              quantity |-> minus(state.items[i].quantity, 1)]])
  /\ page' = pageAfterRender(state')
  /\ alerted' = FALSE
  /\ UNCHANGED <<lastCall, prevState, currentStep, shippingAddress,
                 billingAddress, useSameAddress, isProcessing,
                 createOrderRequests>>

\* CartDrawer: the plus button of a line item, disabled at the stock level
drawerPlus(i) ==
  /\ Rendered
  /\ ButtonFires(state.items[i].quantity
                   >= state.items[i].product.available_quantity)
  /\ state.items[i].quantity + 1 <= MaxLineQty
  /\ state' = cartReducer(state, [type |-> "UPDATE_QUANTITY",
                 payload |-> [productId |-> state.items[i].product.id,
                              quantity |-> plus(state.items[i].quantity, 1)]])
  /\ page' = pageAfterRender(state')
  /\ alerted' = FALSE
  /\ UNCHANGED <<lastCall, prevState, currentStep, shippingAddress,
                 billingAddress, useSameAddress, isProcessing,
                 createOrderRequests>>

\* CartDrawer: the trash button of a line item
drawerRemove(i) ==
  /\ Rendered
  /\ state' = cartReducer(state, [type |-> "REMOVE_ITEM",
                 payload |-> [productId |-> state.items[i].product.id]])
  /\ page' = pageAfterRender(state')
  /\ alerted' = FALSE
  /\ UNCHANGED <<lastCall, prevState, currentStep, shippingAddress,
                 billingAddress, useSameAddress, isProcessing,
                 createOrderRequests>>

\* CartDrawer: Clear Cart
drawerClearCart ==
  /\ Rendered
  /\ state' = cartReducer(state, [type |-> "CLEAR_CART"])
  /\ page' = pageAfterRender(state')
  /\ alerted' = FALSE
  /\ UNCHANGED <<lastCall, prevState, currentStep, shippingAddress,
                 billingAddress, useSameAddress, isProcessing,
                 createOrderRequests>>

\* "Back to Shopping": window.history.back(), the Router's popstate handler
\* unmounts the CheckoutPage
backToShopping ==
  /\ Rendered
  /\ page' = "catalog"
  /\ alerted' = FALSE
  /\ UNCHANGED <<cartVars, currentStep, shippingAddress, billingAddress,
                 useSameAddress, isProcessing, createOrderRequests>>

\* the browser unloads the document of a page that assigned
\* window.location.href: no callback of its requests runs any more
pageUnload ==
  /\ page = "redirected"
  /\ page' = "unloaded"
  /\ alerted' = FALSE
  /\ UNCHANGED <<cartVars, currentStep, shippingAddress, billingAddress,
                 useSameAddress, isProcessing, createOrderRequests>>

\* CheckoutSpec follows the variables that navigation and order submission
\* read and write.  calcRequests and orderCalculation are read and written
\* by the calculateTotals effect alone (CalculationSpec follows them) and
\* are left as they are here; so are the payment method and the notes, which
\* no guard reads (FormSpec follows their setters).
CheckoutNext ==
  /\ \/ \E field \in RequiredFields, value \in FieldValues :
          handleShippingChange(field, value)
     \/ \E field \in RequiredFields, value \in FieldValues :
          handleBillingChange(field, value)
     \/ \E checked \in BOOLEAN : handleUseSameAddressChange(checked)
     \/ handleNextStep
     \/ handlePreviousStep
     \/ handlePlaceOrder
     \/ \E i \in 1..Len(createOrderRequests) : createOrderResolved(i)
     \/ \E i \in 1..Len(createOrderRequests) : createOrderRejected(i)
     \/ \E i \in 1..Len(state.items) : drawerMinus(i)
     \/ \E i \in 1..Len(state.items) : drawerPlus(i)
     \/ \E i \in 1..Len(state.items) : drawerRemove(i)
     \/ drawerClearCart
     \/ backToShopping
     \/ pageUnload
  /\ UNCHANGED calcVars
  /\ UNCHANGED paymentVars
  /\ UNCHANGED <<selectedQuantity, serviceVars>>

CheckoutSpec == CheckoutInit /\ [][CheckoutNext]_vars

(***************************************************************************)
(* The calculateTotals effect of the CheckoutPage and the requests it      *)
(* issues.                                                                 *)
(***************************************************************************)
\* prices around the free-shipping threshold: 99.99, 100.00 and 100.01
ThresholdPrices ==
  {FreeShippingThreshold - Cent, FreeShippingThreshold,
   FreeShippingThreshold + Cent}

\* a price whose 8% tax is not a whole number of cents: 33.33
CalculationPrices == ThresholdPrices \cup {3333 * Cent}

\* the cart after addItem(product, 3) on the empty cart, for a product at
\* 10.00 with 3 units in stock
ScenarioCart ==
  cartReducer(initialState,
    [type |-> "ADD_ITEM",
     payload |-> [product |-> [id |-> 1,
                               price_per_unit |-> 10 * UnitsPerDollar,
                               available_quantity |-> 3],
                  quantity |-> 3]])

\* the carts the sessions of CalculationSpec are entered with: empty, one
\* unit of product 1, or the cart of the scenario
CalculationCarts ==
  {cartOfFirst(k, p, a) : k \in 0..1, p \in CalculationPrices, a \in Stock}
    \cup {ScenarioCart}

\* response.data of a resolved calculateOrder: what the Order Submission
\* Service answers is not the client's to decide
ServerCalculations ==
  {[subtotal |-> Cent, tax_amount |-> 0, shipping_cost |-> 0,
    total_amount |-> Cent]}

\* formatPrice: Intl.NumberFormat currency USD shows the amount rounded to
\* the nearest cent, halves away from zero; the result counted in cents
formatPrice(price) == (price + Cent \div 2) \div Cent

\* the fallback with a total that leaves the tax out
fallbackCalculation_totalWithoutTax(totalPrice) ==
  LET subtotal == totalPrice
      taxAmount == timesRate(subtotal, taxRate)
      shippingCost == IF subtotal > FreeShippingThreshold THEN 0
                      ELSE FlatShippingCost
      totalAmount == plus(subtotal, shippingCost)
  IN [subtotal |-> subtotal, tax_amount |-> taxAmount,
      shipping_cost |-> shippingCost, total_amount |-> totalAmount]

\* the fallback with subtotal >= 100 for the free-shipping test
fallbackCalculation_freeAtThreshold(totalPrice) ==
  LET subtotal == totalPrice
      taxAmount == timesRate(subtotal, taxRate)
      shippingCost == IF subtotal >= FreeShippingThreshold THEN 0
                      ELSE FlatShippingCost
      totalAmount == plus(plus(subtotal, taxAmount), shippingCost)
  IN [subtotal |-> subtotal, tax_amount |-> taxAmount,
      shipping_cost |-> shippingCost, total_amount |-> totalAmount]

\* the catch branch of calculateTotals, with the totalPrice of the render
\* the effect ran in
fallbackCalculation(totalPrice) ==
  LET subtotal == totalPrice
      taxAmount == timesRate(subtotal, taxRate)
      shippingCost == IF subtotal > FreeShippingThreshold THEN 0
                      ELSE FlatShippingCost
      totalAmount == plus(plus(subtotal, taxAmount), shippingCost)
  IN [subtotal |-> subtotal, tax_amount |-> taxAmount,
      shipping_cost |-> shippingCost, total_amount |-> totalAmount]

\* the dependency array of the effect as a render with these values has it
calculateTotalsDeps(cart, shipping, billing, same, payment, notes) ==
  <<cart.totalPrice, shipping, billing, same, payment, notes,
    Len(cart.items)>>

\* calcRequests after one more request was issued from a render with `cart`
issueCalculation(cart) ==
  Append([k \in 1..Len(calcRequests) |->
            [calcRequests[k] EXCEPT !.newest = FALSE]],
         [totalPrice |-> cart.totalPrice, newest |-> TRUE])

\* the effect at the mount of the CheckoutPage
calculateTotalsOnMount(cart) ==
  IF Len(cart.items) > 0
    THEN <<[totalPrice |-> cart.totalPrice, newest |-> TRUE]>>
    ELSE << >>

\* the checkoutData of the calculateOrder call of the effect at the mount
calculateOrderSentOnMount(cart) ==
  IF Len(cart.items) > 0 THEN <<checkoutData>> ELSE << >>

\* the effect after the render that follows a step: it runs when the
\* CheckoutPage is still mounted and a dependency changed, and calls
\* calculateTotals when the cart is not empty
calculateTotalsEffect(depsChanged) ==
  IF /\ page' \in {"checkout", "redirected"}
     /\ depsChanged
     /\ Len(state'.items) > 0
    THEN /\ Len(calcRequests) < MaxCalcInFlight
         /\ calcRequests' = issueCalculation(state')
         /\ calculateOrderSent' = <<checkoutData'>>
         /\ orderCalculationSource'
              = [orderCalculationSource EXCEPT !.newest = FALSE]
         /\ UNCHANGED orderCalculation
    ELSE UNCHANGED calcVars

\* the effect after a step that called no field setter: the dependencies
\* are compared by their values
calculateTotals ==
  calculateTotalsEffect(
    calculateTotalsDeps(state', shippingAddress', billingAddress',
                        useSameAddress', paymentMethod', orderNotes')
      # calculateTotalsDeps(state, shippingAddress, billingAddress,
                            useSameAddress, paymentMethod, orderNotes))

\* an effect that compares what a field setter stored by its value
calculateTotalsOnEdit_byValue == calculateTotals

\* the effect after a step that called a field setter: setShippingAddress
\* and setBillingAddress store a new object, the other setters a changed
\* value, which Object.is tells from the dependency of the render before
calculateTotalsOnEdit == calculateTotalsEffect(TRUE)

\* calcRequests without its i-th element
settleCalculation(i) ==
  SubSeq(calcRequests, 1, i - 1)
    \o SubSeq(calcRequests, i + 1, Len(calcRequests))

\* calculateTotals after its await, calculateOrder resolved:
\* setOrderCalculation(response.data)
calculateOrderResolved(i, data) ==
  /\ Alive
  /\ calcRequests' = settleCalculation(i)
  /\ IF Mounted
       THEN /\ orderCalculation' = data
            /\ orderCalculationSource'
                 = [from |-> "server", newest |-> calcRequests[i].newest]
       ELSE UNCHANGED <<orderCalculation, orderCalculationSource>>
  /\ UNCHANGED calculateOrderSent
  /\ alerted' = FALSE
  /\ UNCHANGED <<cartVars, page, currentStep, shippingAddress,
                 billingAddress, useSameAddress, isProcessing,
                 createOrderRequests>>

\* calculateTotals after its await, calculateOrder rejected: the fallback
calculateOrderRejected(i) ==
  /\ Alive
  /\ calcRequests' = settleCalculation(i)
  /\ IF Mounted
       THEN /\ orderCalculation'
                 = fallbackCalculation(calcRequests[i].totalPrice)
            /\ orderCalculationSource'
                 = [from |-> "fallback", newest |-> calcRequests[i].newest]
       ELSE UNCHANGED <<orderCalculation, orderCalculationSource>>
  /\ UNCHANGED calculateOrderSent
  /\ alerted' = FALSE
  /\ UNCHANGED <<cartVars, page, currentStep, shippingAddress,
                 billingAddress, useSameAddress, isProcessing,
                 createOrderRequests>>

\* the mount of the CheckoutPage with its effects; prevState keeps the cart
\* the checkout was entered with
CalculationInit ==
  /\ state \in CalculationCarts
  /\ lastCall = [op |-> "none"]
  /\ prevState = state
  /\ page = pageAfterRender(state)
  /\ CheckoutPageInitial
  /\ calcRequests = calculateTotalsOnMount(state)
  /\ calculateOrderSent = calculateOrderSentOnMount(state)
  /\ selectedQuantity = initialQuantity
  /\ ServicesInitial

\* a step that leaves the payment method, the notes and the catalog's
\* quantity selectors alone
NoFormEdit(step) ==
  /\ UNCHANGED paymentVars
  /\ UNCHANGED <<selectedQuantity, serviceVars>>
  /\ step

\* the sessions in which the forms of the Payment step and Clear Cart (the
\* same as the trash button on a cart of one line) are left alone: every
\* other handler, each followed by the effects of the render it causes
CalculationNext ==
  \/ \E field \in RequiredFields, value \in FieldValues :
       NoFormEdit(handleShippingChange(field, value)
                    /\ calculateTotalsOnEdit)
  \/ NoFormEdit(handleNextStep /\ calculateTotals)
  \/ NoFormEdit(handlePreviousStep /\ calculateTotals)
  \/ NoFormEdit(handlePlaceOrder /\ calculateTotals)
  \/ \E i \in 1..Len(createOrderRequests) :
       NoFormEdit(createOrderResolved(i) /\ calculateTotals)
  \/ \E i \in 1..Len(createOrderRequests) :
       NoFormEdit(createOrderRejected(i) /\ calculateTotals)
  \/ \E i \in 1..Len(state.items) :
       NoFormEdit(drawerMinus(i) /\ calculateTotals)
  \/ \E i \in 1..Len(state.items) :
       NoFormEdit(drawerPlus(i) /\ calculateTotals)
  \/ \E i \in 1..Len(state.items) :
       NoFormEdit(drawerRemove(i) /\ calculateTotals)
  \/ NoFormEdit(backToShopping /\ calculateTotals)
  \/ NoFormEdit(pageUnload /\ calculateTotals)
  \/ \E i \in 1..Len(calcRequests), data \in ServerCalculations :
       NoFormEdit(calculateOrderResolved(i, data))
  \/ \E i \in 1..Len(calcRequests) :
       NoFormEdit(calculateOrderRejected(i))

CalculationSpec == CalculationInit /\ [][CalculationNext]_vars

(***************************************************************************)
(* The field setters of the checkout forms, each followed by the effects   *)
(* of the render it causes.                                                *)
(***************************************************************************)
PaymentMethods == {"credit_card", "paypal"}

\* a session entered with the cart of the scenario
FormInit ==
  /\ state = ScenarioCart
  /\ lastCall = [op |-> "none"]
  /\ prevState = state
  /\ page = pageAfterRender(state)
  /\ CheckoutPageInitial
  /\ calcRequests = calculateTotalsOnMount(state)
  /\ calculateOrderSent = calculateOrderSentOnMount(state)
  /\ selectedQuantity = initialQuantity
  /\ ServicesInitial

\* an input of the shipping form with the effects of the render it causes
shippingInput ==
  /\ \E field \in RequiredFields, value \in FieldValues :
       handleShippingChange(field, value)
  /\ UNCHANGED <<paymentMethod, orderNotes, selectedQuantity,
                 serviceVars>>
  /\ calculateTotalsOnEdit
  /\ lastSetter' = "setShippingAddress"

\* an input of the billing form
billingInput ==
  /\ \E field \in RequiredFields, value \in FieldValues :
       handleBillingChange(field, value)
  /\ UNCHANGED <<paymentMethod, orderNotes, selectedQuantity,
                 serviceVars>>
  /\ calculateTotalsOnEdit
  /\ lastSetter' = "setBillingAddress"

\* the "same as shipping" checkbox
useSameAddressInput ==
  /\ \E checked \in BOOLEAN : handleUseSameAddressChange(checked)
  /\ UNCHANGED <<paymentMethod, orderNotes, selectedQuantity,
                 serviceVars>>
  /\ calculateTotalsOnEdit
  /\ lastSetter' = "setUseSameAddress"

\* the payment radio buttons
paymentMethodInput ==
  /\ \E value \in PaymentMethods : setPaymentMethod(value)
  /\ calculateTotalsOnEdit
  /\ lastSetter' = "setPaymentMethod"
  /\ UNCHANGED <<selectedQuantity, serviceVars>>

\* the notes textarea
orderNotesInput ==
  /\ \E value \in FieldValues : setOrderNotes(value)
  /\ calculateTotalsOnEdit
  /\ lastSetter' = "setOrderNotes"
  /\ UNCHANGED <<selectedQuantity, serviceVars>>

\* a step that calls no field setter, with the effects of its render
NoSetter(step) ==
  /\ UNCHANGED <<paymentMethod, orderNotes, selectedQuantity,
                 serviceVars>>
  /\ lastSetter' = "none"
  /\ step
  /\ calculateTotals

\* a response to a calculateOrder request
NoSetterResponse(step) ==
  /\ UNCHANGED <<paymentMethod, orderNotes, selectedQuantity,
                 serviceVars>>
  /\ lastSetter' = "none"
  /\ step

\* the sessions in which the user fills the forms and moves forward; the
\* cart drawer, Previous and Place Order are left alone
FormNext ==
  \/ shippingInput
  \/ billingInput
  \/ useSameAddressInput
  \/ paymentMethodInput
  \/ orderNotesInput
  \/ NoSetter(handleNextStep)
  \/ \E i \in 1..Len(calcRequests), data \in ServerCalculations :
       NoSetterResponse(calculateOrderResolved(i, data))
  \/ \E i \in 1..Len(calcRequests) :
       NoSetterResponse(calculateOrderRejected(i))

FormSpec == FormInit /\ [][FormNext]_vars

(***************************************************************************)
(* The sessions of FormSpec with Previous and Place Order: the payloads of *)
(* both requests, for the cart of the scenario.                            *)
(***************************************************************************)
PayloadInit == FormInit

\* the payment method and the notes, which are the same in every payload,
\* and the failure of a calculateOrder request are left out
PayloadNext ==
  \/ shippingInput
  \/ billingInput
  \/ useSameAddressInput
  \/ NoSetter(handleNextStep)
  \/ NoSetter(handlePreviousStep)
  \/ NoSetter(handlePlaceOrder)
  \/ \E i \in 1..Len(createOrderRequests) : NoSetter(createOrderResolved(i))
  \/ \E i \in 1..Len(createOrderRequests) : NoSetter(createOrderRejected(i))
  \/ \E i \in 1..Len(calcRequests), data \in ServerCalculations :
       NoSetterResponse(calculateOrderResolved(i, data))

PayloadSpec == PayloadInit /\ [][PayloadNext]_vars

(***************************************************************************)
(* The callers of the Cart Store in the catalog: ProductCard and           *)
(* ProductDetail (components/ProductCard.tsx, ProductDetail.tsx), the      *)
(* CartItem component and, on the CheckoutPage, the CartDrawer.            *)
(***************************************************************************)
\* what parseInt(e.target.value) gives for the text typed in the quantity
\* input of ProductDetail; 0 also stands for NaN, which is falsy as 0 is
ParsedQuantities == (-1)..(MaxQty + 1)

\* ProductCard handleQuantityChange
cardQuantityChange(product, newQuantity) ==
  /\ selectedQuantity'
       = IF newQuantity >= 1 /\ newQuantity <= product.available_quantity
           THEN [selectedQuantity
                   EXCEPT !["ProductCard", product.id] = newQuantity]
           ELSE selectedQuantity
  /\ UNCHANGED <<cartVars, page, pageVars, serviceVars>>

\* ProductCard: the minus button of the quantity selector
cardMinus(product) ==
  /\ page = "catalog"
  /\ ButtonFires(selectedQuantity["ProductCard", product.id] <= 1)
  /\ cardQuantityChange(product,
       minus(selectedQuantity["ProductCard", product.id], 1))

\* ProductCard: the plus button of the quantity selector
cardPlus(product) ==
  /\ page = "catalog"
  /\ ButtonFires(selectedQuantity["ProductCard", product.id]
                   >= product.available_quantity)
  /\ cardQuantityChange(product,
       plus(selectedQuantity["ProductCard", product.id], 1))

\* ProductDetail: const maxQuantity = Math.min(available_quantity, 100)
maxQuantity(product) ==
  IF product.available_quantity < 100 THEN product.available_quantity
  ELSE 100

\* ProductDetail: onChange of the quantity input,
\* setQuantity(Math.max(1, Math.min(maxQuantity, parseInt(...) || 1)))
detailQuantityInput(product, parsed) ==
  /\ page = "catalog"
  /\ LET wanted == IF parsed # 0 THEN parsed ELSE 1
         capped == IF maxQuantity(product) < wanted
                     THEN maxQuantity(product) ELSE wanted
         floored == IF capped < 1 THEN 1 ELSE capped
     IN selectedQuantity'
          = [selectedQuantity EXCEPT !["ProductDetail", product.id] = floored]
  /\ UNCHANGED <<cartVars, page, pageVars, serviceVars>>

\* handleAddToCart of ProductCard and of ProductDetail:
\* addItem(product, quantity); setQuantity(1).  The button is disabled for
\* a product out of stock (is_active and is_approved are taken as true).
handleAddToCart(selector, product) ==
  /\ page = "catalog"
  /\ ButtonFires(product.available_quantity = 0)
  /\ LineQty(state, product.id) + selectedQuantity[selector, product.id]
       <= MaxLineQty
  /\ state' = cartReducer(state, [type |-> "ADD_ITEM",
                 payload |-> [product |-> product,
                              quantity |-> selectedQuantity[selector,
                                                            product.id]]])
  /\ withinDrift(state')
  /\ selectedQuantity' = [selectedQuantity EXCEPT ![selector, product.id] = 1]
  /\ UNCHANGED <<lastCall, prevState, page, pageVars, serviceVars>>

\* the id of a line item, the string `${product.id}-${Date.now()}`: it is
\* === to the id of no product, as is the number that stands for it here
itemId(item) == 0 - item.product.id

\* CartItem handleQuantityChange (without an onUpdateQuantity prop)
cartItemQuantityChange(i, newQuantity) ==
  /\ page = "catalog"
  /\ IF \/ newQuantity < 0
        \/ newQuantity > state.items[i].product.available_quantity
       THEN UNCHANGED state
       ELSE state' = cartReducer(state, [type |-> "UPDATE_QUANTITY",
                        payload |-> [productId |-> itemId(state.items[i]),
                                     quantity |-> newQuantity]])
  /\ UNCHANGED <<page, pageVars, selectedQuantity,
                 serviceVars>>

\* CartItem: the minus button
cartItemMinus(i) ==
  /\ ButtonFires(state.items[i].quantity <= 1)
  /\ cartItemQuantityChange(i, minus(state.items[i].quantity, 1))

\* CartItem: the plus button
cartItemPlus(i) ==
  /\ ButtonFires(state.items[i].quantity
                   >= state.items[i].product.available_quantity)
  /\ cartItemQuantityChange(i, plus(state.items[i].quantity, 1))

\* CartItem handleRemove (without an onRemove prop): the trash button,
\* removeItem(item.id)
cartItemRemove(i) ==
  /\ page = "catalog"
  /\ state' = cartReducer(state, [type |-> "REMOVE_ITEM",
                 payload |-> [productId |-> itemId(state.items[i])]])
  /\ UNCHANGED <<page, pageVars, selectedQuantity,
                 serviceVars>>

\* a step of a CartItem control that is not recorded
Untraced(step) ==
  /\ UNCHANGED <<lastCall, prevState>>
  /\ step

\* ProductCatalog handleCheckout: navigateTo('checkout') mounts a new
\* CheckoutPage (the requests of its calculateTotals effect are followed
\* by CalculationSpec)
handleCheckout ==
  /\ page = "catalog"
  /\ page' = pageAfterRender(state)
  /\ currentStep' = 1
  /\ shippingAddress' = emptyAddress
  /\ billingAddress' = emptyAddress
  /\ useSameAddress' = TRUE
  /\ isProcessing' = FALSE
  /\ alerted' = FALSE
  /\ paymentMethod' = "credit_card"
  /\ orderNotes' = ""
  /\ lastSetter' = "none"
  /\ UNCHANGED <<cartVars, createOrderRequests, calcVars, selectedQuantity,
                 serviceVars>>

\* a step of the CheckoutPage that leaves its calculation, its payment form
\* and the catalog alone
OnCheckoutPage(step) ==
  /\ UNCHANGED <<calcVars, paymentVars, selectedQuantity,
                 serviceVars>>
  /\ step

CatalogInit == Init

CatalogNext ==
  \/ \E product \in Products : cardMinus(product)
  \/ \E product \in Products : cardPlus(product)
  \/ \E product \in Products, parsed \in ParsedQuantities :
       detailQuantityInput(product, parsed)
  \/ \E selector \in Selectors, product \in Products :
       handleAddToCart(selector, product)
  \/ \E i \in 1..Len(state.items) : Untraced(cartItemMinus(i))
  \/ \E i \in 1..Len(state.items) : Untraced(cartItemPlus(i))
  \/ \E i \in 1..Len(state.items) : Untraced(cartItemRemove(i))
  \/ handleCheckout
  \/ \E i \in 1..Len(state.items) : OnCheckoutPage(drawerMinus(i))
  \/ \E i \in 1..Len(state.items) : OnCheckoutPage(drawerPlus(i))
  \/ \E i \in 1..Len(state.items) : OnCheckoutPage(drawerRemove(i))
  \/ OnCheckoutPage(drawerClearCart)
  \/ /\ backToShopping
     /\ selectedQuantity' = initialQuantity
     /\ UNCHANGED <<calcVars, paymentVars, serviceVars>>
  \/ OnCheckoutPage(pageUnload)

CatalogSpec == CatalogInit /\ [][CatalogNext]_vars

(***************************************************************************)
(* The sessions of CheckoutSpec in which the billing form is left alone,   *)
(* with every createOrder request answered in the end: the promise of a    *)
(* request settles when its response arrives, and its callback runs as     *)
(* long as the document is alive.                                          *)
(***************************************************************************)
ProcessingInit == CheckoutInit

\* the response to some outstanding createOrder request is handled
createOrderSettled ==
  \E i \in 1..Len(createOrderRequests) :
    \/ OnCheckoutPage(createOrderResolved(i))
    \/ OnCheckoutPage(createOrderRejected(i))

ProcessingNext ==
  \/ \E field \in RequiredFields, value \in FieldValues :
       OnCheckoutPage(handleShippingChange(field, value))
  \/ OnCheckoutPage(handleNextStep)
  \/ OnCheckoutPage(handlePreviousStep)
  \/ OnCheckoutPage(handlePlaceOrder)
  \/ \E i \in 1..Len(createOrderRequests) :
       OnCheckoutPage(createOrderResolved(i))
  \/ \E i \in 1..Len(createOrderRequests) :
       OnCheckoutPage(createOrderRejected(i))
  \/ \E i \in 1..Len(state.items) : OnCheckoutPage(drawerMinus(i))
  \/ \E i \in 1..Len(state.items) : OnCheckoutPage(drawerPlus(i))
  \/ \E i \in 1..Len(state.items) : OnCheckoutPage(drawerRemove(i))
  \/ OnCheckoutPage(drawerClearCart)
  \/ OnCheckoutPage(backToShopping)
  \/ OnCheckoutPage(pageUnload)

ProcessingSpec ==
  ProcessingInit /\ [][ProcessingNext]_vars /\ WF_vars(createOrderSettled)

(***************************************************************************)
(* The sessions of ProcessingSpec together with the catalog the user is    *)
(* back in after Back to Shopping, where Add to Cart of a ProductCard      *)
(* (its quantity selector left at 1) fills the cart.                       *)
(***************************************************************************)
SubmissionInit == CheckoutInit

SubmissionNext ==
  \/ ProcessingNext
  \/ \E product \in Products : handleAddToCart("ProductCard", product)

SubmissionSpec == SubmissionInit /\ [][SubmissionNext]_vars

(***************************************************************************)
(* The Cart Store with one product more than the catalog of Spec, all at   *)
(* one price, so that a removal leaves line items on both sides of the one *)
(* removed.                                                                *)
(***************************************************************************)
OrderedProductIds == 1..(NumProducts + 1)

OrderedProducts ==
  [id : OrderedProductIds, price_per_unit : {2}, available_quantity : Stock]

OrderedInit == Init

OrderedNext ==
  \/ \E product \in OrderedProducts, quantity \in AddQuantities :
       addItem(product, quantity)
  \/ \E productId \in OrderedProductIds : removeItem(productId)
  \/ \E productId \in OrderedProductIds, quantity \in UpdateQuantities :
       updateQuantity(productId, quantity)

OrderedSpec == OrderedInit /\ [][OrderedNext]_vars

(***************************************************************************)
(* The controls of the CartItem component on a cart filled by addItem,     *)
(* each click recorded with the line item it was made on and the cart      *)
(* before it.                                                              *)
(***************************************************************************)
\* a click on control `control` of the i-th line item
Traced(control, i, step) ==
  /\ lastCall' = [op |-> control, index |-> i]
  /\ prevState' = state
  /\ step

CartItemInit == Init

CartItemNext ==
  \/ \E product \in Products, quantity \in AddQuantities :
       addItem(product, quantity)
  \/ \E i \in 1..Len(state.items) :
       Traced("CartItem.minus", i, cartItemMinus(i))
  \/ \E i \in 1..Len(state.items) :
       Traced("CartItem.plus", i, cartItemPlus(i))
  \/ \E i \in 1..Len(state.items) :
       Traced("CartItem.remove", i, cartItemRemove(i))

CartItemSpec == CartItemInit /\ [][CartItemNext]_vars

(***************************************************************************)
(* The axios instance `api` and its interceptors.  Each call of api is     *)
(* followed from the call to its settlement: phase "idle" before the call, *)
(* "sent" while the request is with the server, "refreshing" while the     *)
(* response interceptor awaits the refresh call, "resolved" or "rejected"  *)
(* once the promise the caller holds has settled.  sends and refreshes     *)
(* count the times the request was handed to the server and the refresh    *)
(* calls made for it; failure is the error the response interceptor was    *)
(* entered with first, error the one the caller's promise rejects with.    *)
(* The config object of the request, _retry included, is the one axios     *)
(* hands to the interceptors again when api(originalRequest) re-sends it.  *)
(***************************************************************************)
\* what localStorage can hold when the document loads
AccessTokens == {"none", "old"}
RefreshTokens == {"none", "refresh"}

\* the access_token a successful refresh call answers with
RefreshedTokens == {"new"}

\* error.response.status of a failed request, as text; "network" is an
\* error without a response
Statuses == {"401", "500", "network"}

\* the request interceptor: Authorization from the stored access_token, if
\* there is one
requestInterceptor(config, store) ==
  IF store.access_token # "none"
  THEN [config EXCEPT !.Authorization = store.access_token]
  ELSE config

\* the scripts of the document still run
Running == page # "unloaded"

\* api(config): the request interceptor runs and the request goes out
apiCall(r) ==
  /\ Running
  /\ requests[r].phase = "idle"
  /\ requests' = [requests EXCEPT ![r] =
       [requestInterceptor(@, storage) EXCEPT !.phase = "sent", !.sends = 1]]
  /\ UNCHANGED <<storage, cartVars, page, pageVars, selectedQuantity,
                 fetchVars>>

\* the response interceptor's first function: (response) => response
apiResolved(r) ==
  /\ Running
  /\ requests[r].phase = "sent"
  /\ requests' = [requests EXCEPT ![r].phase = "resolved"]
  /\ UNCHANGED <<storage, cartVars, page, pageVars, selectedQuantity,
                 fetchVars>>

\* the rejection the response interceptor ends with: Promise.reject(error)
rejectedWith(request, error) ==
  [request EXCEPT !.phase = "rejected", !.error = error]

\* the response interceptor's second function as if it did not look at
\* originalRequest._retry
apiRejected_noRetryFlag(r, status) ==
  /\ Running
  /\ requests[r].phase = "sent"
  /\ LET originalRequest == requests[r]
         failure == IF originalRequest.failure = "none"
                    THEN status ELSE originalRequest.failure
     IN  requests' = [requests EXCEPT ![r] =
           IF status = "401"
           THEN IF storage.refresh_token # "none"
                THEN [originalRequest EXCEPT
                        !._retry = TRUE, !.failure = failure,
                        !.phase = "refreshing", !.refreshes = @ + 1]
                ELSE rejectedWith([originalRequest EXCEPT
                                     !._retry = TRUE, !.failure = failure],
                                  status)
           ELSE rejectedWith([originalRequest EXCEPT !.failure = failure],
                             status)]
  /\ UNCHANGED <<storage, cartVars, page, pageVars, selectedQuantity,
                 fetchVars>>

\* the response interceptor's second function, up to its await of the
\* refresh call or to its return: the request failed with `status`
apiRejected(r, status) ==
  /\ Running
  /\ requests[r].phase = "sent"
  /\ LET originalRequest == requests[r]
         failure == IF originalRequest.failure = "none"
                    THEN status ELSE originalRequest.failure
     IN  requests' = [requests EXCEPT ![r] =
           IF status = "401" /\ ~originalRequest._retry
           THEN IF storage.refresh_token # "none"
                THEN [originalRequest EXCEPT
                        !._retry = TRUE, !.failure = failure,
                        !.phase = "refreshing", !.refreshes = @ + 1]
                ELSE rejectedWith([originalRequest EXCEPT
                                     !._retry = TRUE, !.failure = failure],
                                  status)
           ELSE rejectedWith([originalRequest EXCEPT !.failure = failure],
                             status)]
  /\ UNCHANGED <<storage, cartVars, page, pageVars, selectedQuantity,
                 fetchVars>>

\* the refresh call answered with `access_token`: the token is stored and
\* set on the request, and api(originalRequest) sends the request again,
\* through the request interceptor
refreshResolved(r, access_token) ==
  /\ Running
  /\ requests[r].phase = "refreshing"
  /\ storage' = [storage EXCEPT !.access_token = access_token]
  /\ requests' = [requests EXCEPT ![r] =
       [requestInterceptor([@ EXCEPT !.Authorization = access_token],
                           storage')
          EXCEPT !.phase = "sent", !.sends = @ + 1]]
  /\ UNCHANGED <<cartVars, page, pageVars, selectedQuantity, fetchVars>>

\* the refresh call failed: the catch block, then Promise.reject(error)
\* with the error the interceptor was called with
refreshRejected(r) ==
  /\ Running
  /\ requests[r].phase = "refreshing"
  /\ storage' = emptyStorage
  /\ page' = "login"
  /\ requests' = [requests EXCEPT ![r] = rejectedWith(@, @.failure)]
  /\ UNCHANGED <<cartVars, pageVars, selectedQuantity, fetchVars>>

\* the browser unloads the document that assigned window.location.href =
\* '/login': no callback of its requests runs any more
loginUnload ==
  /\ page = "login"
  /\ page' = "unloaded"
  /\ UNCHANGED <<cartVars, pageVars, selectedQuantity, serviceVars>>

\* the document loads with whatever tokens earlier sessions left in
\* localStorage
InterceptorInit ==
  /\ state = initialState
  /\ lastCall = [op |-> "none"]
  /\ prevState = initialState
  /\ page = "catalog"
  /\ CheckoutPageInitial
  /\ calcRequests = << >>
  /\ calculateOrderSent = << >>
  /\ selectedQuantity = initialQuantity
  /\ storage \in [access_token : AccessTokens, refresh_token : RefreshTokens]
  /\ requests = [r \in 1..MaxRequests |-> idleRequest]
  /\ FetchInitial

InterceptorNext ==
  \/ \E r \in 1..MaxRequests : apiCall(r)
  \/ \E r \in 1..MaxRequests : apiResolved(r)
  \/ \E r \in 1..MaxRequests, status \in Statuses : apiRejected(r, status)
  \/ \E r \in 1..MaxRequests, access_token \in RefreshedTokens :
       refreshResolved(r, access_token)
  \/ \E r \in 1..MaxRequests : refreshRejected(r)
  \/ loginUnload

InterceptorSpec == InterceptorInit /\ [][InterceptorNext]_vars

(***************************************************************************)
(* The product list of ProductCatalog.  FetchSpec starts when the "Initial *)
(* load" effect has called fetchProducts(searchParams), and follows the    *)
(* searches made from the header, from SearchAndFilter and from the        *)
(* pagination buttons, and the answers to them in any order.               *)
(***************************************************************************)
\* the queries a search is made with
Queries == {"", "rice"}

SearchParams == [query : Queries, page : 1..MaxPage]

\* the products the server holds for a query: MaxPage pages of 20 for the
\* search with no query, 15 products for "rice"
totalOf(query) == IF query = "" THEN MaxPage * 20 ELSE 15

\* response.data of GET /api/v1/products/ for `params`.  The server is not
\* part of the frontend: its product list for a search is named by the
\* search it answers, so that the lists of two searches differ.
searchResponse(params) ==
  [products |-> <<params>>, page |-> params.page, size |-> 20,
   total |-> totalOf(params.query)]

\* Math.ceil(pagination.total / pagination.size)
totalPages == (pagination.total + pagination.size - 1) \div pagination.size

\* fetchProducts up to its await: setLoading(true) and the request
fetchProducts(params) ==
  /\ Len(productFetches) < MaxFetchInFlight
  /\ loading' = TRUE
  /\ productFetches' =
       Append([k \in 1..Len(productFetches) |->
                 [productFetches[k] EXCEPT !.newest = FALSE]],
              [params |-> params, newest |-> TRUE])
  /\ newestFetch' = "pending"
  /\ UNCHANGED <<products, pagination>>

\* the frame of a ProductCatalog handler
CatalogFrame ==
  UNCHANGED <<cartVars, page, pageVars, selectedQuantity, apiVars>>

\* SearchAndFilter's onSearchChange.  SearchAndFilter is given `loading`
\* and is taken to offer no change while it is true.
handleSearchChange(newParams) ==
  /\ page = "catalog"
  /\ ~loading
  /\ LET updatedParams == [newParams EXCEPT !.page = 1]
     IN  /\ searchParams' = updatedParams
         /\ fetchProducts(updatedParams)
  /\ CatalogFrame

\* Header's onSearch
handleHeaderSearch(query) ==
  /\ page = "catalog"
  /\ LET newParams == [searchParams EXCEPT !.query = query, !.page = 1]
     IN  /\ searchParams' = newParams
         /\ fetchProducts(newParams)
  /\ CatalogFrame

handlePageChange(newPage) ==
  /\ page = "catalog"
  /\ newPage \in 1..MaxPage
  /\ LET newParams == [searchParams EXCEPT !.page = newPage]
     IN  /\ searchParams' = newParams
         /\ fetchProducts(newParams)
  /\ CatalogFrame

\* the pagination buttons, rendered when totalPages > 1
paginationPrevious ==
  /\ totalPages > 1
  /\ pagination.page # 1
  /\ handlePageChange(pagination.page - 1)

paginationPage(number) ==
  /\ totalPages > 1
  /\ number <= (IF totalPages < 5 THEN totalPages ELSE 5)
  /\ handlePageChange(number)

paginationNext ==
  /\ totalPages > 1
  /\ pagination.page # totalPages
  /\ handlePageChange(pagination.page + 1)

\* productFetches without its i-th call
settledFetch(i) ==
  [k \in 1..(Len(productFetches) - 1) |->
     IF k < i THEN productFetches[k] ELSE productFetches[k + 1]]

\* fetchProducts after its await, the request answered: setProducts,
\* setPagination, and setLoading(false) in the finally
fetchProductsResolved(i) ==
  /\ page = "catalog"
  /\ i \in 1..Len(productFetches)
  /\ LET data == searchResponse(productFetches[i].params)
     IN  /\ products' = data.products
         /\ pagination' = [page |-> data.page, size |-> data.size,
                           total |-> data.total]
  /\ loading' = FALSE
  /\ newestFetch' = IF productFetches[i].newest THEN "resolved"
                    ELSE newestFetch
  /\ productFetches' = settledFetch(i)
  /\ UNCHANGED searchParams
  /\ CatalogFrame

\* fetchProducts after its await, the request failed: the catch logs the
\* error, the finally calls setLoading(false)
fetchProductsRejected(i) ==
  /\ page = "catalog"
  /\ i \in 1..Len(productFetches)
  /\ loading' = FALSE
  /\ newestFetch' = IF productFetches[i].newest THEN "rejected"
                    ELSE newestFetch
  /\ productFetches' = settledFetch(i)
  /\ UNCHANGED <<searchParams, products, pagination>>
  /\ CatalogFrame

\* ProductCatalog mounted and its "Initial load" effect run
FetchInit ==
  /\ state = initialState
  /\ lastCall = [op |-> "none"]
  /\ prevState = initialState
  /\ page = "catalog"
  /\ CheckoutPageInitial
  /\ calcRequests = << >>
  /\ calculateOrderSent = << >>
  /\ selectedQuantity = initialQuantity
  /\ storage = emptyStorage
  /\ requests = [r \in 1..MaxRequests |-> idleRequest]
  /\ searchParams = initialSearchParams
  /\ products = << >>
  /\ pagination = initialPagination
  /\ loading = TRUE
  /\ productFetches = <<[params |-> initialSearchParams, newest |-> TRUE]>>
  /\ newestFetch = "pending"

FetchNext ==
  \/ \E newParams \in SearchParams : handleSearchChange(newParams)
  \/ \E query \in Queries : handleHeaderSearch(query)
  \/ paginationPrevious
  \/ \E number \in 1..MaxPage : paginationPage(number)
  \/ paginationNext
  \/ \E i \in 1..MaxFetchInFlight : fetchProductsResolved(i)
  \/ \E i \in 1..MaxFetchInFlight : fetchProductsRejected(i)

FetchSpec == FetchInit /\ [][FetchNext]_vars

(***************************************************************************)
(* Definitions used to state the properties of the Cart Store.             *)
(***************************************************************************)
\* the sums a recomputation from the line items gives: the numbers summed
\* in the order of the line items, starting from 0
RECURSIVE SumQuantities(_, _)
SumQuantities(sum, items) ==
  IF items = << >> THEN sum
  ELSE SumQuantities(plus(sum, Head(items).quantity), Tail(items))

RECURSIVE SumLineTotals(_, _)
SumLineTotals(sum, items) ==
  IF items = << >> THEN sum
  ELSE SumLineTotals(plus(sum, Head(items).total_price), Tail(items))

\* the positions of the line items of s for product id P
LinesOf(s, P) == {i \in 1..Len(s.items) : s.items[i].product.id = P}

Holds(s, P) == LinesOf(s, P) # {}

\* the line item of s for P, when there is exactly one
LineOf(s, P) == s.items[CHOOSE i \in LinesOf(s, P) : TRUE]

EmptySnapshot == [items |-> << >>, totalItems |-> 0, totalPrice |-> 0]

\* C1: after any sequence of addItem / updateQuantity / removeItem /
\* clearCart from the empty cart, totalItems is the sum of the line items'
\* quantities, totalPrice is the sum of their total_price values, and every
\* line item's total_price is its quantity times its unit_price.
C1_TotalsMatchLineItems ==
  /\ state.totalItems = SumQuantities(0, state.items)
  /\ state.totalPrice = SumLineTotals(0, state.items)
  /\ \A i \in 1..Len(state.items) :
       state.items[i].total_price
         = times(state.items[i].quantity, state.items[i].unit_price)

\* C2: in every reachable cart no two line items have the same product id.
C2_OneLinePerProduct ==
  \A i, j \in 1..Len(state.items) :
    i # j => state.items[i].product.id # state.items[j].product.id

\* an addItem for a product the cart already held, in a cart of two lines
C2_Witness ==
  /\ lastCall.op = "addItem"
  /\ Holds(prevState, lastCall.product.id)
  /\ Len(state.items) = 2

\* C3: addItem(P, n) on a cart holding a line item for P with quantity q
\* gives exactly one line item for P, of quantity q + n; the number of line
\* items does not grow and every other line item is unchanged.
C3_AddMerges ==
  (lastCall.op = "addItem" /\ Holds(prevState, lastCall.product.id)) =>
    LET P == lastCall.product.id
    IN /\ Cardinality(LinesOf(state, P)) = 1
       /\ LineOf(state, P).quantity
            = plus(LineOf(prevState, P).quantity, lastCall.quantity)
       /\ Len(state.items) = Len(prevState.items)
       /\ \A i \in 1..Len(prevState.items) :
            prevState.items[i].product.id # P
              => state.items[i] = prevState.items[i]

\* addItem(P, 2) on a cart where P had quantity 1, next to another line
C3_Witness ==
  /\ lastCall.op = "addItem"
  /\ lastCall.quantity = 2
  /\ Holds(prevState, lastCall.product.id)
  /\ LineOf(prevState, lastCall.product.id).quantity = 1
  /\ LineOf(state, lastCall.product.id).quantity = 3
  /\ Len(prevState.items) = 2

\* C4: while a line item for P stays in the cart its unit_price is the
\* price_per_unit of the product of the addItem call that created it: a
\* later addItem for P with another price, and any updateQuantity, leave it
\* unchanged, and the line total is computed with that captured price.
C4_FirstAddPriceWins ==
  \A P \in ProductIds :
    Holds(state, P) =>
      /\ Holds(prevState, P) =>
           LineOf(state, P).unit_price = LineOf(prevState, P).unit_price
      /\ ~Holds(prevState, P) =>
           /\ lastCall.op = "addItem"
           /\ lastCall.product.id = P
           /\ LineOf(state, P).unit_price = lastCall.product.price_per_unit
      /\ LineOf(state, P).total_price
           = times(LineOf(state, P).quantity, LineOf(state, P).unit_price)

\* a second addItem for P that carries a price other than the captured one
C4_Witness ==
  /\ lastCall.op = "addItem"
  /\ Holds(prevState, lastCall.product.id)
  /\ lastCall.product.price_per_unit
       # LineOf(prevState, lastCall.product.id).unit_price

\* C5: when every addItem is called with quantity >= 1 and updateQuantity
\* with any integer, every line item has an integer quantity >= 1; an
\* updateQuantity with quantity <= 0 destroys the line item.
C5_QuantityAtLeastOne ==
  /\ \A i \in 1..Len(state.items) :
       /\ state.items[i].quantity \in Int
       /\ state.items[i].quantity >= 1
  /\ (lastCall.op = "updateQuantity" /\ lastCall.quantity <= 0)
       => ~Holds(state, lastCall.productId)

\* updateQuantity(P, q) with q <= 0 on a cart that held P and another line
C5_Witness ==
  /\ lastCall.op = "updateQuantity"
  /\ lastCall.quantity <= 0
  /\ Holds(prevState, lastCall.productId)
  /\ Len(state.items) >= 1

\* C6: for every cart state, product id P and quantity q <= 0,
\* updateQuantity(P, q) gives exactly the state removeItem(P) gives: no
\* line item for P, totalItems and totalPrice reduced by that item's
\* quantity and total.
C6_UpdateToZeroIsRemove ==
  /\ \A P \in ProductIds :
       \A q \in {n \in UpdateQuantities : n <= 0} :
         cartReducer(state, [type |-> "UPDATE_QUANTITY",
                             payload |-> [productId |-> P, quantity |-> q]])
           = cartReducer(state, [type |-> "REMOVE_ITEM",
                                 payload |-> [productId |-> P]])
  /\ (/\ lastCall.op = "updateQuantity"
      /\ lastCall.quantity <= 0
      /\ Holds(prevState, lastCall.productId))
       => LET P == lastCall.productId
          IN /\ ~Holds(state, P)
             /\ state.totalItems
                  = minus(prevState.totalItems, LineOf(prevState, P).quantity)
             /\ state.totalPrice
                  = minus(prevState.totalPrice,
                          LineOf(prevState, P).total_price)

\* updateQuantity(P, 0) has just removed P's line item
C6_Witness ==
  /\ lastCall.op = "updateQuantity"
  /\ lastCall.quantity = 0
  /\ Holds(prevState, lastCall.productId)
  /\ ~Holds(state, lastCall.productId)
  /\ state.totalItems < prevState.totalItems

\* C7: removeItem(P), and updateQuantity(P, q) for any q, on a cart with no
\* line item for P leave items, totalItems and totalPrice unchanged; so
\* removeItem applied twice equals removeItem applied once.
C7_AbsentIsNoOp ==
  /\ (/\ lastCall.op \in {"removeItem", "updateQuantity"}
      /\ ~Holds(prevState, lastCall.productId))
       => state = prevState
  /\ \A P \in ProductIds :
       LET rm(s) == cartReducer(s, [type |-> "REMOVE_ITEM",
                                    payload |-> [productId |-> P]])
       IN rm(rm(state)) = rm(state)

\* removeItem(P) on a non-empty cart that does not hold P
C7_Witness ==
  /\ lastCall.op = "removeItem"
  /\ ~Holds(prevState, lastCall.productId)
  /\ Len(prevState.items) >= 1

\* C8: clearCart on any reachable cart yields the empty snapshot
\* {items: [], totalItems: 0, totalPrice: 0}.
C8_ClearYieldsEmpty ==
  lastCall.op = "clearCart" => state = EmptySnapshot

\* clearCart on a cart of two line items
C8_Witness ==
  /\ lastCall.op = "clearCart"
  /\ Len(prevState.items) = 2
  /\ state.items = << >>

\* C9: getItemQuantity(P) is the quantity of the line item for P when the
\* cart holds one and 0 otherwise, for every cart and product id; the call
\* does not change the cart.
C9_GetItemQuantity ==
  /\ \A P \in ProductIds :
       getItemQuantity(state, P)
         = IF Holds(state, P) THEN LineOf(state, P).quantity ELSE 0
  /\ lastCall.op = "getItemQuantity" =>
       /\ state = prevState
       /\ lastCall.result
            = IF Holds(state, lastCall.productId)
                THEN LineOf(state, lastCall.productId).quantity
                ELSE 0

\* a query for the second of two line items, of quantity above one
C9_Witness ==
  /\ lastCall.op = "getItemQuantity"
  /\ Len(state.items) = 2
  /\ state.items[2].product.id = lastCall.productId
  /\ lastCall.result >= 2

\* C10: within a checkout session at most one createOrder request is
\* outstanding at any time: while one is in flight the processing flag is
\* set and the Place Order control is disabled, whatever the user does in
\* between (Place Order clicks, Previous/Next, field edits, cart edits).
C10_OneCreateOrderInFlight ==
  /\ Len(createOrderRequests) <= 1
  /\ Len(createOrderRequests) = 1 => (isProcessing /\ PlaceOrderDisabled)

\* a createOrder is in flight while the user, back at the Shipping step,
\* has cleared a required field
C10_Witness ==
  /\ Len(createOrderRequests) = 1
  /\ page = "checkout"
  /\ currentStep = 1
  /\ ~isShippingValid

(***************************************************************************)
(* Definitions used to state the properties of the checkout.               *)
(***************************************************************************)
\* the six fields the guards ask for are all non-empty in address
RequiredFilled(address) == \A f \in RequiredFields : address[f] # ""

\* one step is the createOrder success branch of some outstanding request
OrderSucceeded ==
  \E i \in 1..Len(createOrderRequests) : createOrderResolved(i)

\* one step is the createOrder failure branch of some outstanding request
OrderFailed ==
  \E i \in 1..Len(createOrderRequests) : createOrderRejected(i)

\* C11: the result of a calculation request is applied only if no newer
\* request has been issued since, so once every outstanding request has
\* resolved the calculation the open checkout page shows is that of the
\* request issued last.
C11_LatestCalculationWins ==
  (/\ page = "checkout"
   /\ calcRequests = << >>
   /\ orderCalculationSource.from # "initial")
    => orderCalculationSource.newest

\* C12: once the cart has become empty or the user has left the checkout,
\* no calculation request writes orderCalculation any more.
C12_NoCalculationAfterLeaving ==
  [][page # "checkout" => orderCalculation' = orderCalculation]_vars

\* C13: the step is always one of 1..4, Next never leads beyond Review
\* and a step to Confirmed is always the success branch of a createOrder.
C13_ConfirmedOnlyOnSuccess ==
  [][/\ currentStep' \in 1..4
     /\ (handleNextStep => currentStep' <= 3)
     /\ ((currentStep # 4 /\ currentStep' = 4) => OrderSucceeded)]_vars

\* the success branch has led to Confirmed
C13_Witness ==
  /\ currentStep = 4
  /\ createOrderRequests = << >>
  /\ state.items = << >>

\* C14: when a createOrder of the open checkout page fails, then after the
\* failure is handled the step is Review, the processing flag is false, an
\* error message was shown, the cart is unchanged and no createOrder was
\* issued again.
C14_FailureStaysAtReview ==
  [][(page = "checkout" /\ OrderFailed) =>
       /\ currentStep' = 3
       /\ isProcessing' = FALSE
       /\ alerted'
       /\ state' = state
       /\ Len(createOrderRequests') = Len(createOrderRequests) - 1]_vars

\* C15: every change of the step moves one position forward or one
\* position back, and Confirmed is entered from Review only.
C15_OnePositionAtATime ==
  [][currentStep' # currentStep =>
       /\ (currentStep' = currentStep + 1 \/ currentStep' = currentStep - 1)
       /\ (currentStep' = 4 => currentStep = 3)]_vars

\* C16: a step from Shipping to Payment is taken only with first name,
\* last name, street address, city, state and postal code of the shipping
\* address non-empty; with one of them empty the Next control does not
\* leave Shipping.
C16_ShippingGuard ==
  [][/\ (currentStep = 1 /\ currentStep' = 2)
          => RequiredFilled(shippingAddress)
     /\ (currentStep = 1 /\ ~RequiredFilled(shippingAddress)
          /\ handleNextStep) => currentStep' = 1]_vars

\* Payment was reached, and the user is back at Shipping with the city
\* cleared
C16_Witness ==
  /\ currentStep = 1
  /\ page = "checkout"
  /\ shippingAddress["city"] = ""
  /\ \A f \in RequiredFields \ {"city"} : shippingAddress[f] # ""
  /\ ~useSameAddress

\* C17: a step from Payment to Review is taken only with the "same as
\* shipping" flag set or the six required fields of the billing address
\* non-empty; otherwise the Next control does not leave Payment.
C17_BillingGuard ==
  [][/\ (currentStep = 2 /\ currentStep' = 3)
          => (useSameAddress \/ RequiredFilled(billingAddress))
     /\ (currentStep = 2 /\ ~useSameAddress
          /\ ~RequiredFilled(billingAddress) /\ handleNextStep)
          => currentStep' = 2]_vars

\* Review was reached with a billing address of its own
C17_Witness ==
  /\ currentStep = 3
  /\ ~useSameAddress
  /\ RequiredFilled(billingAddress)

\* C18: the step that enters Confirmed leaves the empty cart snapshot, the
\* cart is the empty snapshot whenever the step is Confirmed, and from
\* Confirmed the step never changes and no createOrder is issued.
C18_ConfirmedIsTerminal ==
  [][/\ currentStep' = 4 => state' = EmptySnapshot
     /\ currentStep = 4 =>
          /\ currentStep' = 4
          /\ Len(createOrderRequests') <= Len(createOrderRequests)]_vars

\* a step taken after Confirmed was entered
C18_Witness ==
  /\ currentStep = 4
  /\ page = "unloaded"
  /\ state = EmptySnapshot

\* C19: a checkout entered with an empty cart is redirected, never shows
\* a step and issues no calculateOrder and no createOrder; and whenever the
\* cart is empty the checkout page has been redirected or left.
C19_EmptyCartRedirects ==
  /\ Len(state.items) = 0 => page # "checkout"
  /\ Len(prevState.items) = 0 =>
       /\ page \in {"redirected", "unloaded"}
       /\ calcRequests = << >>
       /\ createOrderRequests = << >>
       /\ orderCalculation = initialCalculation

\* a checkout entered with an empty cart, after the browser left the page
C19_Witness ==
  /\ Len(prevState.items) = 0
  /\ page = "unloaded"

\* C20: a fallback calculation has shipping cost 0 exactly when its
\* subtotal is above 100.00 and 15.00 otherwise: 0 for 100.01, 15.00 for
\* 99.99 and 15.00 for 100.00.
C20_ShippingThreshold ==
  orderCalculationSource.from = "fallback" =>
    LET c == orderCalculation
    IN /\ c.shipping_cost = 0 <=> c.subtotal > 100 * UnitsPerDollar
       /\ c.shipping_cost # 0 => c.shipping_cost = 15 * UnitsPerDollar
       /\ c.subtotal = 100 * UnitsPerDollar + Cent => c.shipping_cost = 0
       /\ c.subtotal = 100 * UnitsPerDollar - Cent
            => c.shipping_cost = 15 * UnitsPerDollar
       /\ c.subtotal = 100 * UnitsPerDollar
            => c.shipping_cost = 15 * UnitsPerDollar

\* the fallback of a cart of exactly 100.00 is what the page shows
C20_Witness ==
  /\ orderCalculationSource.from = "fallback"
  /\ orderCalculation.subtotal = 100 * UnitsPerDollar
  /\ orderCalculation.shipping_cost = 15 * UnitsPerDollar
  /\ page = "checkout"

\* C21: every calculation the client-side fallback produces has, at the
\* precision of a cent (as formatPrice shows the amounts), a total equal to
\* subtotal + tax + shipping and a tax equal to 8% of the subtotal, also
\* when that tax is not a whole number of cents (33.33 gives 2.6664).
C21_TotalIsSumToTheCent ==
  orderCalculationSource.from = "fallback" =>
    /\ formatPrice(orderCalculation.total_amount)
         = formatPrice(orderCalculation.subtotal)
             + formatPrice(orderCalculation.tax_amount)
             + formatPrice(orderCalculation.shipping_cost)
    /\ formatPrice(orderCalculation.tax_amount)
         = (8 * orderCalculation.subtotal + 50 * Cent) \div (100 * Cent)

C21_Witness ==
  /\ orderCalculationSource.from = "fallback"
  /\ orderCalculation.subtotal = 3333 * Cent
  /\ orderCalculation.tax_amount % Cent # 0
  /\ formatPrice(orderCalculation.tax_amount) = 267
  /\ formatPrice(orderCalculation.total_amount) = 5100

\* C22: end to end, the calculation the client makes takes as its subtotal
\* the totalPrice of the current cart: with the cart of one line item at
\* 10.00 and quantity 3 the order summary of the fallback reads subtotal
\* 30.00, tax 2.40, shipping 15.00 and total 47.40, and a createOrder that
\* succeeds leaves the cart with totalItems = 0.
C22_EndToEndScenario ==
  /\ []((page = "checkout" /\ orderCalculationSource.from = "fallback") =>
         /\ orderCalculation.subtotal = state.totalPrice
         /\ state = ScenarioCart =>
              orderCalculation
                = [subtotal |-> 30 * UnitsPerDollar,
                   tax_amount |-> 240 * Cent,
                   shipping_cost |-> 15 * UnitsPerDollar,
                   total_amount |-> 4740 * Cent])
  /\ [][OrderSucceeded => state'.totalItems = 0]_vars

\* a calculateOrder request of the displayed checkout fails / succeeds in
\* this step
CalculationFailed ==
  page = "checkout" /\ \E i \in 1..Len(calcRequests) : calculateOrderRejected(i)

CalculationSucceeded ==
  /\ page = "checkout"
  /\ \E i \in 1..Len(calcRequests), data \in ServerCalculations :
       calculateOrderResolved(i, data)

\* the heuristic estimate for a cart: subtotal = totalPrice, tax = 8% of it,
\* shipping free above 100.00 and 15.00 otherwise, total = their sum
IsEstimateFor(calculation, cart) ==
  /\ calculation.subtotal = cart.totalPrice
  /\ 100 * calculation.tax_amount = 8 * calculation.subtotal
  /\ calculation.shipping_cost
       = IF calculation.subtotal > 100 * UnitsPerDollar THEN 0
         ELSE 15 * UnitsPerDollar
  /\ calculation.total_amount
       = calculation.subtotal + calculation.tax_amount
           + calculation.shipping_cost

\* C23: when a calculateOrder request fails, orderCalculation becomes the
\* heuristic estimate for the cart, and the step, the processing flag and
\* the cart stay as they are; when the request succeeds, orderCalculation
\* becomes the server's result.
C23_FallbackOnFailure ==
  [][/\ CalculationFailed =>
          /\ IsEstimateFor(orderCalculation', state)
          /\ currentStep' = currentStep
          /\ isProcessing' = isProcessing
          /\ state' = state
     /\ CalculationSucceeded =>
          /\ orderCalculation' \in ServerCalculations
          /\ orderCalculationSource'.from = "server"]_vars

\* a calculateOrder request for the cart as it is now is outstanding
InFlightForCurrentCart ==
  /\ page = "checkout"
  /\ Len(state.items) > 0
  /\ \E i \in 1..Len(calcRequests) :
       calcRequests[i].newest /\ calcRequests[i].totalPrice = state.totalPrice

\* C24: while a calculateOrder request for the current cart, which is not
\* empty, is in flight, the order summary shows the heuristic estimate for
\* that cart; the server's result replaces it when the server responds.
C24_EstimateWhileInFlight ==
  /\ [](InFlightForCurrentCart => IsEstimateFor(orderCalculation, state))
  /\ [][CalculationSucceeded => orderCalculation' \in ServerCalculations]_vars

\* C25: every field setter of the checkout forms (a shipping or billing
\* address field, the same-as-shipping toggle, the payment method, the
\* notes) leaves the step as it is and, with a cart that is not empty,
\* issues a new calculateOrder request for the cart.
C25_SettersRecalculate ==
  [][lastSetter' # "none" =>
       /\ currentStep' = currentStep
       /\ Len(state.items) > 0 =>
            /\ Len(calcRequests') = Len(calcRequests) + 1
            /\ calcRequests'[Len(calcRequests')]
                 = [totalPrice |-> state.totalPrice, newest |-> TRUE]]_vars

C25_Witness ==
  /\ lastSetter = "setOrderNotes"
  /\ orderNotes = "x"
  /\ paymentMethod = "paypal"
  /\ ~useSameAddress
  /\ billingAddress["city"] = "x"
  /\ currentStep = 2
  /\ Len(calcRequests) = 2

\* no required field of the shipping form, nor of the billing form when
\* "same as shipping" is off, is empty
AddressesValid ==
  /\ RequiredFilled(shippingAddress)
  /\ useSameAddress \/ RequiredFilled(billingAddress)

\* C26: no calculateOrder and no createOrder request is sent while a
\* required field of the shipping address, or of the billing address when
\* "same as shipping" is off, is empty: not at the mount of the page and not
\* by any later step.
C26_NoRequestWhileInvalid ==
  /\ (calcRequests # << >> \/ createOrderRequests # << >>) => AddressesValid
  /\ [][(\/ Len(calcRequests') > Len(calcRequests)
         \/ Len(createOrderRequests') > Len(createOrderRequests))
          => AddressesValid']_vars

\* the user changes the cart in the cart drawer of the Header, through the
\* Cart Store's operations
DrawerEdit ==
  \/ \E i \in 1..Len(state.items) :
       drawerMinus(i) \/ drawerPlus(i) \/ drawerRemove(i)
  \/ drawerClearCart

\* C27: the checkout flow changes the cart only by clearCart on a
\* createOrder that succeeded: whenever the cart snapshot (items,
\* totalItems, totalPrice) changes during a checkout session, either an
\* order succeeded and the cart is now empty, or the user changed the cart
\* in the cart drawer; step navigation, field edits, calculation responses
\* and fallbacks and failed submissions leave it as it is.
C27_CartOnlyClearedOnSuccess ==
  [][state' # state =>
       \/ OrderSucceeded /\ state' = EmptySnapshot
       \/ DrawerEdit]_vars

C27_Witness ==
  /\ alerted
  /\ currentStep = 3
  /\ orderCalculationSource.from = "fallback"
  /\ calcRequests = << >>
  /\ state = ScenarioCart
  /\ prevState = ScenarioCart

\* C28: in every cart the callers in the user interface can produce (Add to
\* Cart of ProductCard and ProductDetail, the quantity controls of CartItem
\* and CartDrawer), every line item's quantity is at most the
\* available_quantity of its product.
C28_QuantityWithinStock ==
  \A i \in 1..Len(state.items) :
    state.items[i].quantity <= state.items[i].product.available_quantity

C30_CartSurvivesReload ==
  lastCall.op = "reload" => state = prevState

\* the order-confirmation view ("Order Placed Successfully!") is what the
\* CheckoutPage renders: it is mounted, its render does not return null for
\* an empty cart, and the step is 4
ConfirmationView ==
  /\ Mounted
  /\ Len(state.items) > 0
  /\ currentStep = 4

\* C31: after a successful createOrder of the open checkout page the page
\* renders the order-confirmation view (step 4).
C31_ConfirmationShown ==
  [][(page = "checkout" /\ OrderSucceeded) => ConfirmationView']_vars

\* C32: with the handlers of the CartItem component itself, the remove
\* control deletes its line item from the cart, and the plus and the minus
\* control set the quantity of their line item to one more and one less,
\* for every line item of the cart.
C32_CartItemControls ==
  LET i == lastCall.index
      item == prevState.items[i]
  IN /\ lastCall.op = "CartItem.remove" =>
          ~Holds(state, item.product.id)
     /\ lastCall.op = "CartItem.plus" =>
          LineQty(state, item.product.id) = item.quantity + 1
     /\ lastCall.op = "CartItem.minus" =>
          LineQty(state, item.product.id) = item.quantity - 1

\* the product ids of the line items of s, in the order of the line items
IdsOf(s) == [i \in 1..Len(s.items) |-> s.items[i].product.id]

\* seq without the ids that s holds no line item for
RECURSIVE Remaining(_, _)
Remaining(seq, s) ==
  IF seq = << >> THEN << >>
  ELSE IF Holds(s, Head(seq)) THEN <<Head(seq)>> \o Remaining(Tail(seq), s)
  ELSE Remaining(Tail(seq), s)

\* C33: the line items are kept in insertion order: the first add of a
\* product appends its line item at the end, and an add of a product the
\* cart holds, updateQuantity and removeItem leave the line items that
\* remain in the order they had.
C33_InsertionOrder ==
  /\ lastCall.op = "addItem" =>
       IdsOf(state) = IF Holds(prevState, lastCall.product.id)
                        THEN IdsOf(prevState)
                        ELSE Append(IdsOf(prevState), lastCall.product.id)
  /\ lastCall.op \in {"updateQuantity", "removeItem"} =>
       /\ IdsOf(state) = Remaining(IdsOf(prevState), state)
       /\ \A id \in OrderedProductIds :
            Holds(state, id) = (Holds(prevState, id)
                                  /\ ~(/\ id = lastCall.productId
                                       /\ lastCall.op = "updateQuantity"
                                            => lastCall.quantity <= 0))

\* the middle one of three line items was removed, the cart having been
\* filled in an order that is not that of the product ids
C33_Witness ==
  /\ lastCall.op = "removeItem"
  /\ IdsOf(prevState) = <<2, 3, 1>>
  /\ lastCall.productId = 3
  /\ IdsOf(state) = <<2, 1>>

\* C34: whenever the step is Payment or Review the required fields of the
\* shipping address are all non-empty, whenever it is Review the flag is
\* set or the required fields of the billing address are all non-empty,
\* and every createOrder payload carries a complete shipping and a complete
\* billing address.
C34_AddressesCompleteFromPayment ==
  /\ currentStep \in {2, 3} => RequiredFilled(shippingAddress)
  /\ currentStep = 3 => (useSameAddress \/ RequiredFilled(billingAddress))
  /\ \A i \in 1..Len(createOrderRequests) :
       /\ RequiredFilled(createOrderRequests[i].shipping_address)
       /\ RequiredFilled(createOrderRequests[i].billing_address)

\* a createOrder with a billing address of its own is in flight, and the
\* user, back at Payment, has cleared the city of the billing address
C34_Witness ==
  /\ currentStep = 2
  /\ page = "checkout"
  /\ Len(createOrderRequests) = 1
  /\ ~useSameAddress
  /\ billingAddress["city"] = ""
  /\ createOrderRequests[1].billing_address["city"] # ""

\* C35: every calculateOrder and every createOrder payload sent while the
\* "same as shipping" flag is true carries a billing_address equal to its
\* shipping_address, whatever the stored billing address is: the payload of
\* the mount, and the payload of every request a later step sends.
C35_SameAddressPayload ==
  /\ (calculateOrderSent # << >> /\ useSameAddress) =>
       calculateOrderSent[1].billing_address
         = calculateOrderSent[1].shipping_address
  /\ [][/\ (Len(calcRequests') > Len(calcRequests) /\ useSameAddress') =>
            calculateOrderSent'[1].billing_address
              = calculateOrderSent'[1].shipping_address
        /\ (Len(createOrderRequests') > Len(createOrderRequests)
             /\ useSameAddress) =>
            LET sent == createOrderRequests'[Len(createOrderRequests')]
            IN sent.billing_address = sent.shipping_address]_vars

\* the flag was set at Payment, which stored a complete billing address; a
\* createOrder was sent; back at Shipping the user has cleared the city,
\* and the calculateOrder sent for that edit has no city in either address
C35_Witness ==
  /\ useSameAddress
  /\ RequiredFilled(billingAddress)
  /\ currentStep = 1
  /\ shippingAddress["city"] = ""
  /\ Len(createOrderRequests) = 1
  /\ createOrderRequests[1].billing_address["city"] # ""
  /\ calculateOrderSent # << >>
  /\ calculateOrderSent[1].shipping_address = shippingAddress
  /\ calculateOrderSent[1].billing_address["city"] = ""

\* C36: every createOrder request being answered, every click on Place
\* Order is followed by a state in which the processing flag of the page is
\* false (or the page is gone), and the flag of a mounted page is true
\* exactly while a createOrder request is outstanding.
C36_ProcessingEnds ==
  /\ [](Mounted => (isProcessing <=> createOrderRequests # << >>))
  /\ (Mounted /\ isProcessing) ~> (~Mounted \/ ~isProcessing)

\* the request has failed after the user had stepped back to Payment, and
\* the flag is false
C36_Witness ==
  /\ alerted
  /\ page = "checkout"
  /\ currentStep = 2
  /\ ~isProcessing
  /\ createOrderRequests = << >>

\* C37: between the click on Place Order and the response to createOrder
\* the cart does not change, so the cart that the success branch clears is
\* the cart that was submitted.
C37_CartFrozenWhileSubmitting ==
  [][(/\ createOrderRequests # << >>
      /\ Len(createOrderRequests') >= Len(createOrderRequests))
       => state' = state]_vars


\* C38: for every request made through api, the response interceptor makes
\* at most one refresh call and sends the request at most once more; a
\* request already retried that fails with 401 again is rejected, with no
\* further refresh call; and when the refresh call fails, access_token and
\* refresh_token are both gone from localStorage and the request is
\* rejected with the error it failed with.
C38_OneRefreshOneResend ==
  /\ [](\A r \in 1..MaxRequests :
         requests[r].refreshes <= 1 /\ requests[r].sends <= 2)
  /\ [][\A r \in 1..MaxRequests :
         /\ ( /\ requests[r].phase = "sent"
              /\ requests[r]._retry
              /\ requests'[r].phase # "sent" /\ requests'[r].phase # "resolved" )
            => /\ requests'[r].phase = "rejected"
               /\ requests'[r].refreshes = requests[r].refreshes
               /\ requests'[r].sends = requests[r].sends
         /\ ( /\ requests[r].phase = "refreshing"
              /\ requests'[r].phase # "refreshing" /\ requests'[r].phase # "sent" )
            => /\ storage' = emptyStorage
               /\ requests'[r].phase = "rejected"
               /\ requests'[r].error = requests[r].failure
               /\ requests[r].failure = "401"]_vars

\* a request was sent twice after one refresh call and failed with 401 both
\* times, and the refresh call of another request has failed
C38_Witness ==
  /\ requests[1].phase = "rejected" /\ requests[1].sends = 2
  /\ requests[1].refreshes = 1 /\ requests[1].error = "401"
  /\ requests[2].phase = "rejected" /\ requests[2].sends = 1
  /\ requests[2].refreshes = 1 /\ requests[2].error = "401"
  /\ storage = emptyStorage
  /\ page = "login"


\* C39: once no fetchProducts call is outstanding and the one made last has
\* been answered, the products and the pagination shown are those of the
\* answer to the current searchParams, in whatever order the answers came.
C39_NewestSearchShown ==
  (productFetches = << >> /\ newestFetch = "resolved")
    => LET data == searchResponse(searchParams)
       IN  /\ products = data.products
           /\ pagination = [page |-> data.page, size |-> data.size,
                            total |-> data.total]
====
